---------------------------- MODULE Spec2Model ----------------------------
(***************************************************************************)
(* A model of shredstream-tui: the reconnecting stream client              *)
(* (src/src/client.rs), the shared AppState and its statistics trackers    *)
(* (src/src/state.rs), the program registry (src/src/programs.rs) and the  *)
(* presentation loop (src/src/main.rs, src/src/events.rs).                 *)
(*                                                                         *)
(* Two threads of control are interleaved: the ingestion task              *)
(* (ShredstreamClient::subscribe) and the presentation loop (run_app).     *)
(* Each lock-protected or atomic operation of the ingestion task outside   *)
(* the per-message handler is one step; the per-message handler runs from  *)
(* one await to the next as one step.  Wall-clock fields (timestamps,      *)
(* received_at, last_seen) are left out of the records; connected_at is a  *)
(* stamp number (0 for None).                                              *)
(***************************************************************************)
EXTENDS Integers, Sequences, FiniteSets, TLC

(***************************************************************************)
(* Capacities and thresholds of the program, scaled down so that the rings *)
(* fill and the thresholds are crossed within the explored runs.  The      *)
(* source values are given in the comments.                                *)
(***************************************************************************)
\* state.rs:14  MAX_LOG_ENTRIES = 200
MAX_LOG_ENTRIES == 3
\* state.rs:15  MAX_SLOT_HISTORY = 100
MAX_SLOT_HISTORY == 2
\* state.rs:16  MAX_TXN_SAMPLES = 50
MAX_TXN_SAMPLES == 2
\* state.rs:17  MAX_LATENCY_SAMPLES = 100
MAX_LATENCY_SAMPLES == 2
\* state.rs:18  MAX_LEADER_HISTORY = 50
MAX_LEADER_HISTORY == 2
\* state.rs:19  MAX_BUNDLE_SAMPLES = 50
MAX_BUNDLE_SAMPLES == 2
\* main.rs:64  mpsc::channel::<ClientMessage>(1000)
CHANNEL_CAPACITY == 2
\* client.rs:225  sig_cleanup_counter % 1000
SIG_CLEANUP_INTERVAL == 3
\* client.rs:225  recent_sigs.len() > 50000
SIG_CLEANUP_THRESHOLD == 1
\* client.rs:169  txn_samples.read().len() < 10
SAMPLE_BASELINE == 1
\* state.rs:171  u64::MAX, the "no sample yet" sentinel of the minimum
U64_MAX == 9

(***************************************************************************)
(* Bounds of the exploration.                                              *)
(***************************************************************************)
\* stream attempts that may end (reconnect_count never exceeds it)
MaxReconnects == 2
\* stream messages delivered over the whole run
MaxMsgs == 3
\* signatures 1..NumSigs
NumSigs == 5
\* transactions per stream message in the duplicate-detection runs
MaxTxnsPerMsg == 2
\* appends made by the API-level runs
MaxRingOps == 5
\* explicit window resets
MaxResets == 1
\* scroll_offset, which saturates only at usize::MAX
MaxScroll == 2

\* the slot numbers of the tracker runs
MaxSlot == 3
\* the turbine layers of the tracker runs
MaxLayer == 4
\* the transaction count of a leader slot in the tracker runs
MaxLeaderTxns == 2

(***************************************************************************)
(* programs.rs: the registry and the tip accounts.                         *)
(***************************************************************************)
ProgramInfo(name, category) == [name |-> name, category |-> category]

\* KnownPrograms::get_all: the 21 inserted ids (the Token programs are
\* declared but never inserted).
KnownProgramsGetAll ==
    [id \in {"JUPITER_V6", "JUPITER_LIMIT", "RAYDIUM_V4", "RAYDIUM_CLMM",
             "RAYDIUM_CP", "ORCA_WHIRLPOOL", "ORCA_TOKEN_SWAP", "METEORA_DLMM",
             "METEORA_POOLS", "LIFINITY_V2", "PHOENIX", "OPENBOOK_V2",
             "MARGINFI", "KAMINO_LENDING", "SOLEND", "DRIFT",
             "MARINADE", "JITO_STAKE", "SANCTUM",
             "JITO_TIP", "JITO_BUNDLE"} |->
        CASE id = "JUPITER_V6"      -> ProgramInfo("Jupiter V6", "Dex")
          [] id = "JUPITER_LIMIT"   -> ProgramInfo("Jupiter Limit", "Dex")
          [] id = "RAYDIUM_V4"      -> ProgramInfo("Raydium V4", "Dex")
          [] id = "RAYDIUM_CLMM"    -> ProgramInfo("Raydium CLMM", "Dex")
          [] id = "RAYDIUM_CP"      -> ProgramInfo("Raydium CP", "Dex")
          [] id = "ORCA_WHIRLPOOL"  -> ProgramInfo("Orca Whirlpool", "Dex")
          [] id = "ORCA_TOKEN_SWAP" -> ProgramInfo("Orca Swap", "Dex")
          [] id = "METEORA_DLMM"    -> ProgramInfo("Meteora DLMM", "Dex")
          [] id = "METEORA_POOLS"   -> ProgramInfo("Meteora Pools", "Dex")
          [] id = "LIFINITY_V2"     -> ProgramInfo("Lifinity V2", "Dex")
          [] id = "PHOENIX"         -> ProgramInfo("Phoenix", "Dex")
          [] id = "OPENBOOK_V2"     -> ProgramInfo("OpenBook V2", "Dex")
          [] id = "MARGINFI"        -> ProgramInfo("MarginFi", "Lending")
          [] id = "KAMINO_LENDING"  -> ProgramInfo("Kamino", "Lending")
          [] id = "SOLEND"          -> ProgramInfo("Solend", "Lending")
          [] id = "DRIFT"           -> ProgramInfo("Drift", "Lending")
          [] id = "MARINADE"        -> ProgramInfo("Marinade", "Staking")
          [] id = "JITO_STAKE"      -> ProgramInfo("Jito Stake", "Staking")
          [] id = "SANCTUM"         -> ProgramInfo("Sanctum", "Staking")
          [] id = "JITO_TIP"        -> ProgramInfo("Jito Tips", "Mev")
          [] id = "JITO_BUNDLE"     -> ProgramInfo("Jito Bundle", "Mev")]

\* JITO_TIP_ACCOUNTS: the eight tip-collection accounts, by position.
JITO_TIP_ACCOUNTS ==
    {"TIP_ACCOUNT_1", "TIP_ACCOUNT_2", "TIP_ACCOUNT_3", "TIP_ACCOUNT_4",
     "TIP_ACCOUNT_5", "TIP_ACCOUNT_6", "TIP_ACCOUNT_7", "TIP_ACCOUNT_8"}

(***************************************************************************)
(* The state.                                                              *)
(***************************************************************************)
VARIABLES
    \* ---- AppState (state.rs:734-762)
    connection_state,   \* RwLock<ConnectionState>
    connected_at,       \* RwLock<Option<Instant>>: 0 is None, k the k-th stamp
    reconnect_count,    \* AtomicU64
    metrics,            \* ShredMetrics
    current_slot,       \* AtomicU64
    slot_history,       \* RwLock<VecDeque<SlotInfo>>
    txn_samples,        \* RwLock<VecDeque<TxnSample>>
    latency_stats,      \* LatencyStats
    program_stats,      \* ProgramStats
    leader_tracker,     \* LeaderTracker
    turbine_stats,      \* TurbineStats
    competition_stats,  \* CompetitionStats
    wallet_monitor,     \* WalletMonitor
    logs,               \* RwLock<VecDeque<LogEntry>>
    selected_tab,       \* RwLock<usize>
    scroll_offset,      \* RwLock<usize>
    show_help,          \* RwLock<bool>
    metrics_window_start, \* RwLock<Instant>: the number of window restarts
    \* ---- the notification channel (main.rs:64)
    chan,
    \* ---- the ingestion task (client.rs:51-244)
    ing_pc,             \* where the task is
    result,             \* what try_subscribe returned: "pending", "Ok", "Err:..."
    attempts,           \* ghost: attempts ended and Reconnecting phases set so far
    cur_msg,            \* the stream message being handled
    recent_sigs,        \* client.rs:85, local to one attempt
    sig_cleanup_counter,\* client.rs:86, local to one attempt
    \* ---- the presentation loop (main.rs:107-174)
    ui_pc,
    running,            \* FALSE once run_app has left its loop (process exit)
    \* ---- history variables (not program state)
    hist,               \* what the ingestion task did in this loop iteration
    observed,           \* signature -> times observed since the set was last empty
    n_decoded,          \* messages decoded in this attempt
    n_observed,         \* signatures observed in this attempt
    dup_base,           \* duplicate_count when the set was last (re)started
    stream_msgs,        \* stream messages delivered so far
    appended,           \* API-level runs: every value appended to each ring
    ring_ops,           \* API-level runs: appends made so far
    \* ---- tracker calls in progress, one atomic operation at a time
    calls               \* per call: its step (0 when not running) and locals

app_vars == <<connection_state, connected_at, reconnect_count, metrics,
              current_slot, slot_history, txn_samples, latency_stats,
              program_stats, leader_tracker, turbine_stats, competition_stats,
              wallet_monitor, logs, selected_tab, scroll_offset, show_help,
              metrics_window_start>>
ing_vars == <<ing_pc, result, attempts, cur_msg, recent_sigs,
              sig_cleanup_counter>>
ui_vars == <<ui_pc, running>>
hist_vars == <<hist, observed, n_decoded, n_observed, dup_base, stream_msgs,
               appended, ring_ops, calls>>
vars == <<app_vars, chan, ing_vars, ui_vars, hist_vars>>

(***************************************************************************)
(* Small helpers.                                                          *)
(***************************************************************************)
\* HashMap insert-or-replace
Put(f, k, v) == [x \in (DOMAIN f) \cup {k} |-> IF x = k THEN v ELSE f[x]]

EmptyMap == [x \in {} |-> 0]

\* the last n elements of s (all of s when it is shorter)
LastN(s, n) == IF Len(s) <= n THEN s ELSE SubSeq(s, Len(s) - n + 1, Len(s))

RECURSIVE Flatten(_)
\* entries.iter().flat_map(|e| e.transactions): the transactions in entry order
Flatten(entries) ==
    IF entries = <<>> THEN <<>> ELSE Head(entries) \o Flatten(Tail(entries))

RECURSIVE SumBag(_, _)
SumBag(f, S) ==
    IF S = {} THEN 0
    ELSE LET x == CHOOSE y \in S : TRUE IN f[x] + SumBag(f, S \ {x})

(***************************************************************************)
(* state.rs: logging.                                                      *)
(***************************************************************************)
LogEntry(level, message) == [level |-> level, message |-> message]

\* variant: the ring is never trimmed
LogNoEvict(l, level, message) == Append(l, LogEntry(level, message))

\* AppState::log: evict the oldest entry of a full ring, then append.
Log(l, level, message) ==
    LET kept == IF Len(l) >= MAX_LOG_ENTRIES THEN Tail(l) ELSE l
    IN  Append(kept, LogEntry(level, message))

log_info(l, message) == Log(l, "INFO", message)

log_warn(l, message) == Log(l, "WARN", message)

log_error(l, message) == Log(l, "ERROR", message)

(***************************************************************************)
(* state.rs: ShredMetrics.                                                 *)
(***************************************************************************)
ShredMetricsNew ==
    [received |-> 0, success_forward |-> 0, fail_forward |-> 0, duplicate |-> 0,
     recovered_count |-> 0, entry_count |-> 0, txn_count |-> 0,
     total_received |-> 0, total_success_forward |-> 0, total_fail_forward |-> 0,
     total_duplicate |-> 0, total_entries |-> 0, total_txns |-> 0]

\* variant: only the window counters are advanced
add_entry_window_only(m, entry_count, txn_count) ==
    [m EXCEPT !.entry_count = @ + entry_count, !.txn_count = @ + txn_count]

\* ShredMetrics::add_entry
add_entry(m, entry_count, txn_count) ==
    [m EXCEPT !.entry_count = @ + entry_count,
              !.txn_count = @ + txn_count,
              !.total_entries = @ + entry_count,
              !.total_txns = @ + txn_count]

\* variant: the window's transaction counter is left as it is
reset_window_keeps_txn_count(m) ==
    [m EXCEPT !.received = 0, !.success_forward = 0, !.fail_forward = 0,
              !.duplicate = 0, !.entry_count = 0, !.recovered_count = 0]

\* ShredMetrics::reset_window
reset_window(m) ==
    [m EXCEPT !.received = 0, !.success_forward = 0, !.fail_forward = 0,
              !.duplicate = 0, !.entry_count = 0, !.txn_count = 0,
              !.recovered_count = 0]

(***************************************************************************)
(* state.rs: slot history and transaction samples.                         *)
(***************************************************************************)
SlotInfo(slot, entry_count, txn_count) ==
    [slot |-> slot, entry_count |-> entry_count, txn_count |-> txn_count,
     first_shred_delay_ms |-> "None", leader |-> "None",
     dex_txn_count |-> 0, jito_bundle_count |-> 0, turbine_index |-> "None"]

\* AppState::add_slot, the history part
push_slot(h, slot, entry_count, txn_count) ==
    LET kept == IF Len(h) >= MAX_SLOT_HISTORY THEN Tail(h) ELSE h
    IN  Append(kept, SlotInfo(slot, entry_count, txn_count))

\* variant: the slot of the last batch is stored as the current one
add_slot_stores_last(slot, entry_count, txn_count) ==
    /\ current_slot' = slot
    /\ slot_history' = push_slot(slot_history, slot, entry_count, txn_count)
    /\ metrics' = add_entry(metrics, entry_count, txn_count)

\* AppState::add_slot
add_slot(slot, entry_count, txn_count) ==
    /\ current_slot' = IF slot > current_slot THEN slot ELSE current_slot
    /\ slot_history' = push_slot(slot_history, slot, entry_count, txn_count)
    /\ metrics' = add_entry(metrics, entry_count, txn_count)

TxnSample(slot, signature, programs, is_bundle, tip_amount) ==
    [slot |-> slot, signature |-> signature, programs |-> programs,
     is_bundle |-> is_bundle, tip_amount |-> tip_amount]

\* variant: a full ring is emptied instead of losing its oldest sample
add_txn_sample_clears_full(samples, slot, signature, programs, is_bundle, tip_amount) ==
    LET kept == IF Len(samples) >= MAX_TXN_SAMPLES THEN <<>> ELSE samples
    IN  Append(kept, TxnSample(slot, signature, programs, is_bundle, tip_amount))

\* AppState::add_txn_sample
add_txn_sample(samples, slot, signature, programs, is_bundle, tip_amount) ==
    LET kept == IF Len(samples) >= MAX_TXN_SAMPLES THEN Tail(samples) ELSE samples
    IN  Append(kept, TxnSample(slot, signature, programs, is_bundle, tip_amount))

(***************************************************************************)
(* state.rs: LatencyStats.                                                 *)
(***************************************************************************)
LatencyStatsNew ==
    [samples |-> <<>>, min_latency_us |-> U64_MAX, max_latency_us |-> 0,
     total_latency_us |-> 0, sample_count |-> 0,
     leader_latencies |-> EmptyMap, region_latencies |-> EmptyMap]

\* LeaderLatencyStats / RegionLatencyStats, Default::default() but for the key
KeyLatencyDefault ==
    [total_latency_us |-> 0, sample_count |-> 0,
     min_latency_us |-> 0, max_latency_us |-> 0]

\* the body shared by the per-leader and the per-region update
key_latency_update(m, key, latency) ==
    LET stats == IF key \in DOMAIN m THEN m[key] ELSE KeyLatencyDefault
        s1 == [stats EXCEPT !.total_latency_us = @ + latency,
                            !.sample_count = @ + 1]
        s2 == IF latency < s1.min_latency_us \/ s1.min_latency_us = 0
              THEN [s1 EXCEPT !.min_latency_us = latency] ELSE s1
        s3 == IF latency > s2.max_latency_us
              THEN [s2 EXCEPT !.max_latency_us = latency] ELSE s2
    IN  Put(m, key, s3)

\* LatencyStats::add_sample (the compare-and-retry loops succeed at once:
\* the ingestion task is the only writer)
latency_add_sample(ls, sample) ==
    LET latency == sample.shred_latency_us
        kept == IF Len(ls.samples) >= MAX_LATENCY_SAMPLES
                THEN Tail(ls.samples) ELSE ls.samples
    IN  [ls EXCEPT
            !.total_latency_us = @ + latency,
            !.sample_count = @ + 1,
            !.min_latency_us = IF latency < @ THEN latency ELSE @,
            !.max_latency_us = IF latency > @ THEN latency ELSE @,
            !.leader_latencies =
                IF sample.leader # "None"
                THEN key_latency_update(@, sample.leader, latency) ELSE @,
            !.region_latencies =
                IF sample.region # "None"
                THEN key_latency_update(@, sample.region, latency) ELSE @,
            !.samples = Append(kept, sample)]

\* a duration in milliseconds, kept as its number of thousandths: the
\* accessors divide the microseconds by 1000.0
Ms(us) == [thousandths |-> us]

\* LatencyStats::min_latency_ms
min_latency_ms(ls) ==
    IF ls.min_latency_us = U64_MAX THEN Ms(0) ELSE Ms(ls.min_latency_us)

\* LatencyStats::max_latency_ms
max_latency_ms(ls) == Ms(ls.max_latency_us)

\* LatencyStats::add_sample after its atomics: the per-leader and
\* per-region statistics and the ring
latency_record_sample(ls, sample) ==
    LET latency == sample.shred_latency_us
        kept == IF Len(ls.samples) >= MAX_LATENCY_SAMPLES
                THEN Tail(ls.samples) ELSE ls.samples
    IN  [ls EXCEPT
            !.leader_latencies =
                IF sample.leader # "None"
                THEN key_latency_update(@, sample.leader, latency) ELSE @,
            !.region_latencies =
                IF sample.region # "None"
                THEN key_latency_update(@, sample.region, latency) ELSE @,
            !.samples = Append(kept, sample)]

(***************************************************************************)
(* state.rs: ProgramStats.                                                 *)
(***************************************************************************)
ProgramStatsNew ==
    [activities |-> EmptyMap, dex_txn_count |-> 0, lending_txn_count |-> 0,
     mev_txn_count |-> 0, staking_txn_count |-> 0]

\* variant: an id outside the registry is left out
record_program_known_only(ps, program_id) ==
    IF program_id \notin DOMAIN KnownProgramsGetAll THEN ps
    ELSE LET category == KnownProgramsGetAll[program_id].category
             counted ==
                 CASE category = "Dex"     -> [ps EXCEPT !.dex_txn_count = @ + 1]
                   [] category = "Lending" -> [ps EXCEPT !.lending_txn_count = @ + 1]
                   [] category = "Mev"     -> [ps EXCEPT !.mev_txn_count = @ + 1]
                   [] category = "Staking" -> [ps EXCEPT !.staking_txn_count = @ + 1]
                   [] OTHER                -> ps
             activity ==
                 IF program_id \in DOMAIN ps.activities
                 THEN [ps.activities[program_id] EXCEPT !.txn_count = @ + 1]
                 ELSE [program_id |-> program_id,
                       name |-> KnownProgramsGetAll[program_id].name,
                       category |-> category, txn_count |-> 1]
         IN  [counted EXCEPT !.activities = Put(@, program_id, activity)]

\* ProgramStats::record_program
record_program(ps, program_id) ==
    LET known == program_id \in DOMAIN KnownProgramsGetAll
        name == IF known THEN KnownProgramsGetAll[program_id].name
                ELSE <<"prefix8", program_id>>
        category == IF known THEN KnownProgramsGetAll[program_id].category
                    ELSE "Other"
        counted ==
            CASE category = "Dex"     -> [ps EXCEPT !.dex_txn_count = @ + 1]
              [] category = "Lending" -> [ps EXCEPT !.lending_txn_count = @ + 1]
              [] category = "Mev"     -> [ps EXCEPT !.mev_txn_count = @ + 1]
              [] category = "Staking" -> [ps EXCEPT !.staking_txn_count = @ + 1]
              [] OTHER                -> ps
        activity ==
            IF program_id \in DOMAIN ps.activities
            THEN [ps.activities[program_id] EXCEPT !.txn_count = @ + 1]
            ELSE [program_id |-> program_id, name |-> name,
                  category |-> category, txn_count |-> 1]
    IN  [counted EXCEPT !.activities = Put(@, program_id, activity)]

(***************************************************************************)
(* state.rs: LeaderTracker.                                                *)
(***************************************************************************)
LeaderTrackerNew ==
    [slot_history |-> <<>>, leader_stats |-> EmptyMap,
     current_leader |-> "None", upcoming_leaders |-> <<>>]

\* variant: the totals of a leader follow the bounded history
record_slot_totals_of_history(lt, info) ==
    LET kept == IF Len(lt.slot_history) >= MAX_LEADER_HISTORY
                THEN Tail(lt.slot_history) ELSE lt.slot_history
        history == Append(kept, info)
        mine == SelectSeq(history, LAMBDA h : h.leader = info.leader)
        stat == [leader |-> info.leader, slots_seen |-> Len(mine),
                 slots_skipped |-> Len(SelectSeq(mine, LAMBDA h : h.skip)),
                 total_txns |-> IF info.leader \in DOMAIN lt.leader_stats
                                THEN lt.leader_stats[info.leader].total_txns
                                         + info.txn_count
                                ELSE info.txn_count]
    IN  [lt EXCEPT !.current_leader = info.leader,
                   !.leader_stats = Put(@, info.leader, stat),
                   !.slot_history = history]

\* LeaderTracker::record_slot
record_slot(lt, info) ==
    LET stat == IF info.leader \in DOMAIN lt.leader_stats
                THEN lt.leader_stats[info.leader]
                ELSE [leader |-> info.leader, slots_seen |-> 0,
                      slots_skipped |-> 0, total_txns |-> 0]
        stat2 == [stat EXCEPT
                    !.slots_seen = @ + 1,
                    !.slots_skipped = IF info.skip THEN @ + 1 ELSE @,
                    !.total_txns = @ + info.txn_count]
        kept == IF Len(lt.slot_history) >= MAX_LEADER_HISTORY
                THEN Tail(lt.slot_history) ELSE lt.slot_history
    IN  [lt EXCEPT !.current_leader = info.leader,
                   !.leader_stats = Put(@, info.leader, stat2),
                   !.slot_history = Append(kept, info)]

(***************************************************************************)
(* state.rs: TurbineStats.                                                 *)
(***************************************************************************)
TurbineStatsNew ==
    [samples |-> <<>>, total_samples |-> 0, sum_index |-> 0,
     min_index |-> U64_MAX, max_index |-> 0,
     layer_0_count |-> 0, layer_1_count |-> 0, layer_2_count |-> 0,
     layer_3_plus_count |-> 0]

\* variant: the last bucket counts layer 3 alone
turbine_add_sample_layer_3_only(ts, info) ==
    LET index == info.turbine_index
        kept == IF Len(ts.samples) >= MAX_LATENCY_SAMPLES
                THEN Tail(ts.samples) ELSE ts.samples
    IN  [ts EXCEPT
            !.total_samples = @ + 1,
            !.sum_index = @ + index,
            !.min_index = IF index < @ THEN index ELSE @,
            !.max_index = IF index > @ THEN index ELSE @,
            !.layer_0_count = IF info.layer = 0 THEN @ + 1 ELSE @,
            !.layer_1_count = IF info.layer = 1 THEN @ + 1 ELSE @,
            !.layer_2_count = IF info.layer = 2 THEN @ + 1 ELSE @,
            !.layer_3_plus_count = IF info.layer = 3 THEN @ + 1 ELSE @,
            !.samples = Append(kept, info)]

\* TurbineStats::add_sample
turbine_add_sample(ts, info) ==
    LET index == info.turbine_index
        kept == IF Len(ts.samples) >= MAX_LATENCY_SAMPLES
                THEN Tail(ts.samples) ELSE ts.samples
    IN  [ts EXCEPT
            !.total_samples = @ + 1,
            !.sum_index = @ + index,
            !.min_index = IF index < @ THEN index ELSE @,
            !.max_index = IF index > @ THEN index ELSE @,
            !.layer_0_count = IF info.layer = 0 THEN @ + 1 ELSE @,
            !.layer_1_count = IF info.layer = 1 THEN @ + 1 ELSE @,
            !.layer_2_count = IF info.layer = 2 THEN @ + 1 ELSE @,
            !.layer_3_plus_count = IF info.layer \notin {0, 1, 2} THEN @ + 1 ELSE @,
            !.samples = Append(kept, info)]

(***************************************************************************)
(* state.rs: CompetitionStats.                                             *)
(***************************************************************************)
CompetitionStatsNew ==
    [bundles |-> <<>>, sandwiches |-> <<>>, duplicate_txns |-> <<>>,
     bundle_count |-> 0, total_tips_lamports |-> 0, sandwich_count |-> 0,
     duplicate_count |-> 0]

BundleInfo(slot, txn_count, tip_amount, tip_account, signatures) ==
    [slot |-> slot, txn_count |-> txn_count, tip_amount |-> tip_amount,
     tip_account |-> tip_account, signatures |-> signatures]

\* CompetitionStats::add_bundle
add_bundle(cs, bundle) ==
    LET kept == IF Len(cs.bundles) >= MAX_BUNDLE_SAMPLES
                THEN Tail(cs.bundles) ELSE cs.bundles
    IN  [cs EXCEPT !.bundle_count = @ + 1,
                   !.total_tips_lamports = @ + bundle.tip_amount,
                   !.bundles = Append(kept, bundle)]

(***************************************************************************)
(* state.rs: WalletMonitor.                                                *)
(***************************************************************************)
WalletMonitorNew ==
    [wallet |-> "None", transactions |-> <<>>, txn_count |-> 0,
     success_count |-> 0, fail_count |-> 0]

WalletTxn(slot, signature, success, programs) ==
    [slot |-> slot, signature |-> signature, success |-> success,
     programs |-> programs]

\* variant: the success of a wallet transaction is not counted
wallet_add_txn_uncounted_success(wm, txn) ==
    LET kept == IF Len(wm.transactions) >= MAX_TXN_SAMPLES
                THEN Tail(wm.transactions) ELSE wm.transactions
    IN  [wm EXCEPT !.txn_count = @ + 1,
                   !.fail_count = IF txn.success THEN @ ELSE @ + 1,
                   !.transactions = Append(kept, txn)]

\* WalletMonitor::add_txn
wallet_add_txn(wm, txn) ==
    LET kept == IF Len(wm.transactions) >= MAX_TXN_SAMPLES
                THEN Tail(wm.transactions) ELSE wm.transactions
    IN  [wm EXCEPT !.txn_count = @ + 1,
                   !.success_count = IF txn.success THEN @ + 1 ELSE @,
                   !.fail_count = IF txn.success THEN @ ELSE @ + 1,
                   !.transactions = Append(kept, txn)]

\* WalletMonitor::set_wallet
wallet_set_wallet(wm, wallet) == [wm EXCEPT !.wallet = wallet]

\* variant: the phase is logged and stamped whether or not it changes
set_connection_state_unconditional(state) ==
    /\ logs' = log_info(logs, <<"Connection state", state>>)
    /\ connection_state' = state
    /\ connected_at' = IF state = "Connected"
                       THEN connected_at + 1 ELSE connected_at

(***************************************************************************)
(* state.rs: the connection phase.                                         *)
(***************************************************************************)
\* AppState::set_connection_state
set_connection_state(state) ==
    IF connection_state # state
    THEN /\ logs' = log_info(logs, <<"Connection state", state>>)
         /\ connection_state' = state
         /\ connected_at' = IF state = "Connected"
                            THEN connected_at + 1 ELSE connected_at
    ELSE UNCHANGED <<logs, connection_state, connected_at>>

\* variant: no duration is reported unless the phase is Connected
connection_duration_connected_only ==
    IF connection_state = "Connected" /\ connected_at # 0
    THEN <<connected_at>> ELSE <<>>

\* AppState::connection_duration: the Option as a sequence of at most one
\* element, the stamp the elapsed time is measured from
connection_duration ==
    IF connected_at = 0 THEN <<>> ELSE <<connected_at>>

\* variant: the restart of the window clears the cumulative counters too
reset_metrics_window_clears_totals ==
    /\ metrics_window_start' = metrics_window_start + 1
    /\ metrics' = ShredMetricsNew

\* AppState::reset_metrics_window
reset_metrics_window ==
    /\ metrics_window_start' = metrics_window_start + 1
    /\ metrics' = reset_window(metrics)

(***************************************************************************)
(* client.rs: the per-transaction work of try_subscribe (lines 115-198).   *)
(* A transaction is [signatures, account_keys]; the accumulator acc holds  *)
(* what the loop reads and writes: the attempt's recent_sigs, the batch's  *)
(* locals and the trackers.                                                *)
(***************************************************************************)
\* variant: the signature is counted as a duplicate but never remembered
observe_signature_never_inserts(acc, sig) ==
    IF sig \in acc.recent_sigs
    THEN [acc EXCEPT !.competition_stats.duplicate_count = @ + 1]
    ELSE acc

\* client.rs:123-129, the duplicate check
observe_signature(acc, sig) ==
    IF sig \in acc.recent_sigs
    THEN [acc EXCEPT !.competition_stats.duplicate_count = @ + 1]
    ELSE [acc EXCEPT !.recent_sigs = @ \cup {sig}]

\* client.rs:132-135, the locals of one pass of the loop body
reset_locals(acc) ==
    [acc EXCEPT !.program_names = <<>>, !.is_dex = FALSE,
                !.is_jito_tip = FALSE]

\* variant: tip accounts are not recognised
check_tip_account_never_flags(acc, key) == acc

\* client.rs:141-145, the key is a tip account
check_tip_account(acc, key) ==
    IF key \in JITO_TIP_ACCOUNTS
    THEN [acc EXCEPT !.is_jito_tip = TRUE, !.bundle_tip_account = key]
    ELSE acc

\* variant: every account key is recorded as a program, in the registry or not
check_known_program_records_all(acc, key) ==
    IF key \in DOMAIN KnownProgramsGetAll
    THEN [acc EXCEPT
            !.program_names = Append(@, KnownProgramsGetAll[key].name),
            !.program_stats = record_program(@, key),
            !.is_dex = @ \/ KnownProgramsGetAll[key].category = "Dex"]
    ELSE [acc EXCEPT !.program_stats = record_program(@, key)]

\* client.rs:148-155, the key is a known program
check_known_program(acc, key) ==
    IF key \in DOMAIN KnownProgramsGetAll
    THEN [acc EXCEPT
            !.program_names = Append(@, KnownProgramsGetAll[key].name),
            !.program_stats = record_program(@, key),
            !.is_dex = @ \/ KnownProgramsGetAll[key].category = "Dex"]
    ELSE acc

RECURSIVE classify_keys(_, _)
\* client.rs:138-156, the loop over the account keys
classify_keys(keys, acc) ==
    IF keys = <<>> THEN acc
    ELSE classify_keys(Tail(keys),
             check_known_program(check_tip_account(acc, Head(keys)), Head(keys)))

\* client.rs:158-165, the batch's counters
count_flags(acc, sig) ==
    [acc EXCEPT
        !.dex_count = IF acc.is_dex THEN @ + 1 ELSE @,
        !.bundle_count = IF acc.is_jito_tip THEN @ + 1 ELSE @,
        !.bundle_txns = IF acc.is_jito_tip THEN Append(@, sig) ELSE @]

\* variant: only flagged transactions are sampled
sample_txn_flagged_only(acc, slot, sig) ==
    IF acc.is_dex \/ acc.is_jito_tip
    THEN [acc EXCEPT !.txn_samples =
             add_txn_sample(@, slot, sig, acc.program_names, acc.is_jito_tip,
                            "None")]
    ELSE acc

\* client.rs:167-179, the sampling policy
sample_txn(acc, slot, sig) ==
    IF acc.is_dex \/ acc.is_jito_tip \/ Len(acc.txn_samples) < SAMPLE_BASELINE
    THEN [acc EXCEPT !.txn_samples =
             add_txn_sample(@, slot, sig, acc.program_names, acc.is_jito_tip,
                            "None")]
    ELSE acc

\* variant: a WalletTxn is added for every occurrence of the address
check_wallet_per_occurrence(acc, txn, slot) ==
    LET occurrences == {i \in DOMAIN txn.account_keys :
                           txn.account_keys[i] = acc.wallet_monitor.wallet}
        wtxn == WalletTxn(slot, txn.signatures[1], TRUE, <<>>)
    IN  IF acc.wallet_monitor.wallet = "None" \/ occurrences = {} THEN acc
        ELSE IF Cardinality(occurrences) = 1
        THEN [acc EXCEPT !.wallet_monitor = wallet_add_txn(@, wtxn)]
        ELSE [acc EXCEPT !.wallet_monitor =
                 wallet_add_txn(wallet_add_txn(@, wtxn), wtxn)]

\* client.rs:181-197, the monitored wallet
check_wallet(acc, txn, slot) ==
    IF /\ acc.wallet_monitor.wallet # "None"
       /\ \E i \in DOMAIN txn.account_keys :
              txn.account_keys[i] = acc.wallet_monitor.wallet
    THEN [acc EXCEPT !.wallet_monitor =
             wallet_add_txn(@, WalletTxn(slot, txn.signatures[1], TRUE, <<>>))]
    ELSE acc

\* variant: the account keys of an unsigned transaction are still looked up
process_txn_classifies_unsigned(acc, txn, slot) ==
    IF txn.signatures = <<>>
    THEN classify_keys(txn.account_keys, reset_locals(acc))
    ELSE check_wallet(
             sample_txn(
                 count_flags(
                     classify_keys(txn.account_keys,
                         observe_signature(reset_locals(acc),
                                           txn.signatures[1])),
                     txn.signatures[1]),
                 slot, txn.signatures[1]),
             txn, slot)

\* client.rs:117-197, one transaction of the batch
process_txn(acc, txn, slot) ==
    IF txn.signatures = <<>> THEN acc
    ELSE check_wallet(
             sample_txn(
                 count_flags(
                     classify_keys(txn.account_keys,
                         observe_signature(reset_locals(acc),
                                           txn.signatures[1])),
                     txn.signatures[1]),
                 slot, txn.signatures[1]),
             txn, slot)

\* variant: a transaction whose signature is already in the duplicate set is
\* counted as a duplicate and skipped
RECURSIVE process_txns_skips_repeats(_, _, _)
process_txns_skips_repeats(acc, txns, slot) ==
    IF txns = <<>> THEN acc
    ELSE process_txns_skips_repeats(
             IF /\ Head(txns).signatures # <<>>
                /\ Head(txns).signatures[1] \in acc.recent_sigs
             THEN observe_signature(acc, Head(txns).signatures[1])
             ELSE process_txn(acc, Head(txns), slot),
             Tail(txns), slot)

RECURSIVE process_txns(_, _, _)
\* client.rs:115-199, the transactions in entry order
process_txns(acc, txns, slot) ==
    IF txns = <<>> THEN acc
    ELSE process_txns(process_txn(acc, Head(txns), slot), Tail(txns), slot)

\* variant: the bundle holds only its last member
record_bundle_last_member(acc, slot) ==
    IF acc.bundle_count > 0 /\ acc.bundle_txns # <<>>
    THEN add_bundle(acc.competition_stats,
                    BundleInfo(slot, 1, 0, acc.bundle_tip_account,
                               <<acc.bundle_txns[Len(acc.bundle_txns)]>>))
    ELSE acc.competition_stats

\* client.rs:201-211, the bundle of the batch
record_bundle(acc, slot) ==
    IF acc.bundle_count > 0 /\ acc.bundle_txns # <<>>
    THEN add_bundle(acc.competition_stats,
                    BundleInfo(slot, Len(acc.bundle_txns), 0,
                               acc.bundle_tip_account, acc.bundle_txns))
    ELSE acc.competition_stats

\* client.rs:223-227, the periodic cleanup: the set after the counter has
\* been advanced to `counter`
cleanup_sigs(sigs, counter) ==
    IF counter % SIG_CLEANUP_INTERVAL = 0 /\ Cardinality(sigs) > SIG_CLEANUP_THRESHOLD
    THEN {} ELSE sigs

(***************************************************************************)
(* Messages.                                                               *)
(***************************************************************************)
NoMsg == [slot |-> 0, ok |-> FALSE, entries |-> <<>>]

\* a stream message whose payload bincode cannot decode
BadMsg(slot) == [slot |-> slot, ok |-> FALSE, entries |-> <<>>]

\* a stream message whose payload decodes to `entries`
EntriesMsg(slot, entries) == [slot |-> slot, ok |-> TRUE, entries |-> entries]

Txn(signatures, account_keys) ==
    [signatures |-> signatures, account_keys |-> account_keys]

\* variant: the notification carries the two counts in each other's place
EntriesReceivedSwappedCounts(slot, entry_count, txn_count) ==
    [type |-> "EntriesReceived", slot |-> slot, entry_count |-> txn_count,
     txn_count |-> entry_count]

\* ClientMessage (client.rs:21-29)
EntriesReceived(slot, entry_count, txn_count) ==
    [type |-> "EntriesReceived", slot |-> slot, entry_count |-> entry_count,
     txn_count |-> txn_count]

ConnectionChanged(state) == [type |-> "ConnectionChanged", state |-> state]

Error(e) == [type |-> "Error", error |-> e]

Sigs == 1 .. NumSigs

\* the signatures a batch observes, in processing order
SigsOf(txns) ==
    LET signed == SelectSeq(txns, LAMBDA t : t.signatures # <<>>)
    IN  [i \in 1 .. Len(signed) |-> signed[i].signatures[1]]

(***************************************************************************)
(* The state after construction: AppState::new (state.rs:765-789), the two *)
(* log lines of main (main.rs:60-61), the channel (main.rs:64), the        *)
(* spawned ingestion task and the presentation loop before its first       *)
(* drain.                                                                  *)
(***************************************************************************)
\* the threads that call LatencyStats::add_sample
LatencyThreads == {"first", "second"}

\* the two tasks that take the locks of AppState: the ingestion task and the
\* presentation loop
LockTasks == {"ingest", "ui"}

\* no tracker call is in progress
NoCalls ==
    [add_entry |-> [pc |-> 0, entry_count |-> 0, txn_count |-> 0],
     reset |-> [pc |-> 0],
     add_sample |-> [t \in LatencyThreads |->
                        [pc |-> 0, latency |-> 0, current |-> 0]],
     locking |-> [t \in LockTasks |-> [op |-> "idle", done |-> 0]]]

InitLogs ==
    log_info(log_info(<<>>, <<"ShredStream TUI starting...">>),
             <<"Connecting to proxy at", "proxy_url">>)

Init ==
    /\ connection_state = "Disconnected"
    /\ connected_at = 0
    /\ reconnect_count = 0
    /\ metrics = ShredMetricsNew
    /\ metrics_window_start = 0
    /\ current_slot = 0
    /\ slot_history = <<>>
    /\ txn_samples = <<>>
    /\ latency_stats = LatencyStatsNew
    /\ program_stats = ProgramStatsNew
    /\ leader_tracker = LeaderTrackerNew
    /\ turbine_stats = TurbineStatsNew
    /\ competition_stats = CompetitionStatsNew
    /\ wallet_monitor = WalletMonitorNew
    /\ logs = InitLogs
    /\ selected_tab = 0
    /\ scroll_offset = 0
    /\ show_help = FALSE
    /\ chan = <<>>
    /\ ing_pc = "top"
    /\ result = "pending"
    /\ attempts = [ended |-> 0, reconnecting |-> 0]
    /\ cur_msg = NoMsg
    /\ recent_sigs = {}
    /\ sig_cleanup_counter = 0
    /\ ui_pc = "drain"
    /\ running = TRUE
    /\ hist = <<>>
    /\ observed = [s \in Sigs |-> 0]
    /\ n_decoded = 0
    /\ n_observed = 0
    /\ dup_base = 0
    /\ stream_msgs = 0
    /\ appended = [logs |-> InitLogs, slot_history |-> <<>>,
                   txn_samples |-> <<>>, bundles |-> <<>>,
                   wallet_transactions |-> <<>>, latency_samples |-> <<>>,
                   leader_history |-> <<>>, turbine_samples |-> <<>>]
    /\ ring_ops = 0
    /\ calls = NoCalls

agg_vars == <<metrics, current_slot, slot_history, txn_samples, latency_stats,
              program_stats, leader_tracker, turbine_stats, competition_stats,
              wallet_monitor>>
cursor_vars == <<selected_tab, scroll_offset, show_help, metrics_window_start>>
conn_vars == <<connection_state, connected_at, logs>>
attempt_vars == <<recent_sigs, sig_cleanup_counter>>
dup_hist_vars == <<observed, n_decoded, n_observed, dup_base>>
api_hist_vars == <<appended, ring_ops, calls>>

(***************************************************************************)
(* The ingestion task: ShredstreamClient::subscribe and try_subscribe.     *)
(***************************************************************************)
\* client.rs:52-53, the top of the reconnect loop
SetConnecting ==
    /\ running /\ ing_pc = "top"
    /\ reconnect_count < MaxReconnects
    /\ set_connection_state("Connecting")
    /\ ing_pc' = "connect"
    /\ result' = "pending"
    /\ hist' = <<(<<"set", "Connecting">>)>>
    /\ UNCHANGED <<reconnect_count, attempts, agg_vars, cursor_vars, chan, cur_msg,
                   attempt_vars, ui_vars, dup_hist_vars, stream_msgs,
                   api_hist_vars>>

\* client.rs:73, create_channel().await succeeds
CreateChannelOk ==
    /\ running /\ ing_pc = "connect"
    /\ ing_pc' = "log_connected"
    /\ UNCHANGED <<app_vars, chan, result, attempts, cur_msg, attempt_vars, ui_vars,
                   hist_vars>>

\* client.rs:73, create_channel().await? fails (invalid URL, connect
\* failure, connect timeout)
CreateChannelErr ==
    /\ running /\ ing_pc = "connect"
    /\ result' = "Err:connect"
    /\ attempts' = [attempts EXCEPT !.ended = @ + 1]
    /\ ing_pc' = "log_error"
    /\ UNCHANGED <<app_vars, chan, cur_msg, attempt_vars, ui_vars, hist_vars>>

\* client.rs:76
LogConnected ==
    /\ running /\ ing_pc = "log_connected"
    /\ logs' = log_info(logs, <<"Connected to proxy at", "proxy_url">>)
    /\ ing_pc' = "set_connected"
    /\ hist' = Append(hist, <<"log", logs'[Len(logs')].level>>)
    /\ UNCHANGED <<connection_state, connected_at, reconnect_count, agg_vars,
                   cursor_vars, chan, result, attempts, cur_msg, attempt_vars, ui_vars,
                   dup_hist_vars, stream_msgs, api_hist_vars>>

\* client.rs:77
SetConnected ==
    /\ running /\ ing_pc = "set_connected"
    /\ set_connection_state("Connected")
    /\ ing_pc' = "send_connected"
    /\ hist' = Append(hist, <<"set", "Connected">>)
    /\ UNCHANGED <<reconnect_count, agg_vars, cursor_vars, chan, result, attempts,
                   cur_msg, attempt_vars, ui_vars, dup_hist_vars, stream_msgs,
                   api_hist_vars>>

\* client.rs:78, tx.send(..).await: tokio's bounded Sender::send completes
\* once the channel has room
SendConnected ==
    /\ running /\ ing_pc = "send_connected"
    /\ Len(chan) < CHANNEL_CAPACITY
    /\ chan' = Append(chan, ConnectionChanged("Connected"))
    /\ ing_pc' = "subscribe"
    /\ hist' = Append(hist, <<"offer", chan'[Len(chan')].type>>)
    /\ UNCHANGED <<app_vars, result, attempts, cur_msg, attempt_vars, ui_vars,
                   dup_hist_vars, stream_msgs, api_hist_vars>>

\* variant: the set starts from the signatures sampled in earlier attempts
SubscribeEntriesOkKeepsSigs ==
    /\ running /\ ing_pc = "subscribe"
    /\ recent_sigs' = {txn_samples[i].signature : i \in DOMAIN txn_samples}
    /\ sig_cleanup_counter' = 0
    /\ ing_pc' = "stream"
    /\ hist' = Append(hist, <<"subscribed", "">>)
    /\ observed' = [s \in Sigs |-> 0]
    /\ n_decoded' = 0
    /\ n_observed' = 0
    /\ dup_base' = competition_stats.duplicate_count
    /\ UNCHANGED <<app_vars, chan, result, attempts, cur_msg, ui_vars, stream_msgs,
                   api_hist_vars>>

SubscribeEntriesOk ==
    /\ running /\ ing_pc = "subscribe"
    /\ recent_sigs' = {}
    /\ sig_cleanup_counter' = 0
    /\ ing_pc' = "stream"
    /\ hist' = Append(hist, <<"subscribed", "">>)
    /\ observed' = [s \in Sigs |-> 0]
    /\ n_decoded' = 0
    /\ n_observed' = 0
    /\ dup_base' = competition_stats.duplicate_count
    /\ UNCHANGED <<app_vars, chan, result, attempts, cur_msg, ui_vars, stream_msgs,
                   api_hist_vars>>

\* client.rs:81, subscribe_entries(request).await? fails
SubscribeEntriesErr ==
    /\ running /\ ing_pc = "subscribe"
    /\ result' = "Err:subscribe"
    /\ attempts' = [attempts EXCEPT !.ended = @ + 1]
    /\ ing_pc' = "log_error"
    /\ UNCHANGED <<app_vars, chan, cur_msg, attempt_vars, ui_vars, hist_vars>>

\* client.rs:97-99, stream.next().await yields a message
StreamNextMsg(Msgs) ==
    /\ running /\ ing_pc = "stream"
    /\ stream_msgs < MaxMsgs
    /\ \E m \in Msgs : cur_msg' = m
    /\ stream_msgs' = stream_msgs + 1
    /\ ing_pc' = "handle"
    /\ UNCHANGED <<app_vars, chan, result, attempts, attempt_vars, ui_vars, hist,
                   dup_hist_vars, api_hist_vars>>

\* client.rs:237-239, stream.next().await yields a transport error
StreamNextErr ==
    /\ running /\ ing_pc = "stream"
    /\ result' = "Err:stream"
    /\ attempts' = [attempts EXCEPT !.ended = @ + 1]
    /\ ing_pc' = "log_error"
    /\ recent_sigs' = {}
    /\ sig_cleanup_counter' = 0
    /\ UNCHANGED <<app_vars, chan, cur_msg, ui_vars, hist_vars>>

\* client.rs:97 and 243, the stream ends
StreamEnd ==
    /\ running /\ ing_pc = "stream"
    /\ result' = "Ok"
    /\ attempts' = [attempts EXCEPT !.ended = @ + 1]
    /\ ing_pc' = "log_ended"
    /\ recent_sigs' = {}
    /\ sig_cleanup_counter' = 0
    /\ UNCHANGED <<app_vars, chan, cur_msg, ui_vars, hist_vars>>

\* variant: the decode failure is propagated like a transport error
HandleDecodeErrPropagates ==
    /\ running /\ ing_pc = "handle"
    /\ ~cur_msg.ok
    /\ result' = "Err:stream"
    /\ attempts' = [attempts EXCEPT !.ended = @ + 1]
    /\ cur_msg' = NoMsg
    /\ ing_pc' = "log_error"
    /\ UNCHANGED <<app_vars, chan, attempt_vars, ui_vars, hist_vars>>

\* client.rs:100 and 229-234, the payload does not decode
HandleDecodeErr ==
    /\ running /\ ing_pc = "handle"
    /\ ~cur_msg.ok
    /\ logs' = log_warn(logs, <<"Failed to deserialize entries for slot",
                                cur_msg.slot>>)
    /\ cur_msg' = NoMsg
    /\ ing_pc' = "stream"
    /\ UNCHANGED <<connection_state, connected_at, reconnect_count, agg_vars,
                   cursor_vars, chan, result, attempts, attempt_vars, ui_vars, hist_vars>>

\* client.rs:100-214, the payload decodes: the batch
HandleEntries ==
    /\ running /\ ing_pc = "handle"
    /\ cur_msg.ok
    /\ LET slot == cur_msg.slot
           entry_count == Len(cur_msg.entries)
           txns == Flatten(cur_msg.entries)
           txn_count == Len(txns)
           acc == process_txns(
                      [recent_sigs |-> recent_sigs,
                       competition_stats |-> competition_stats,
                       program_stats |-> program_stats,
                       txn_samples |-> txn_samples,
                       wallet_monitor |-> wallet_monitor,
                       dex_count |-> 0, bundle_count |-> 0,
                       bundle_txns |-> <<>>, bundle_tip_account |-> "",
                       program_names |-> <<>>, is_dex |-> FALSE,
                       is_jito_tip |-> FALSE],
                      txns, slot)
           sigs == SigsOf(txns)
       IN  /\ recent_sigs' = acc.recent_sigs
           /\ program_stats' = acc.program_stats
           /\ txn_samples' = acc.txn_samples
           /\ wallet_monitor' = acc.wallet_monitor
           /\ competition_stats' = record_bundle(acc, slot)
           /\ add_slot(slot, entry_count, txn_count)
           /\ observed' = [s \in Sigs |->
                   observed[s] + Cardinality({i \in DOMAIN sigs : sigs[i] = s})]
           /\ n_observed' = n_observed + Len(sigs)
           /\ n_decoded' = n_decoded + 1
    /\ ing_pc' = "send_entries"
    /\ UNCHANGED <<conn_vars, reconnect_count, latency_stats, leader_tracker,
                   turbine_stats, cursor_vars, chan, result, attempts, cur_msg,
                   sig_cleanup_counter, ui_vars, hist, dup_base, stream_msgs,
                   api_hist_vars>>

\* client.rs:216-227, the notification and the periodic cleanup
SendEntries ==
    /\ running /\ ing_pc = "send_entries"
    /\ Len(chan) < CHANNEL_CAPACITY
    /\ chan' = Append(chan, EntriesReceived(cur_msg.slot, Len(cur_msg.entries),
                                            Len(Flatten(cur_msg.entries))))
    /\ sig_cleanup_counter' = sig_cleanup_counter + 1
    /\ recent_sigs' = cleanup_sigs(recent_sigs, sig_cleanup_counter + 1)
    /\ observed' = IF recent_sigs' = {} THEN [s \in Sigs |-> 0] ELSE observed
    /\ dup_base' = IF recent_sigs' = {} THEN competition_stats.duplicate_count
                   ELSE dup_base
    /\ cur_msg' = NoMsg
    /\ ing_pc' = "stream"
    /\ UNCHANGED <<app_vars, result, attempts, ui_vars, hist, n_decoded, n_observed,
                   stream_msgs, api_hist_vars>>

\* client.rs:56-58
LogStreamEnded ==
    /\ running /\ ing_pc = "log_ended"
    /\ logs' = log_info(logs, <<"Stream ended, reconnecting...">>)
    /\ ing_pc' = "set_reconnecting"
    /\ hist' = Append(hist, <<"log", logs'[Len(logs')].level>>)
    /\ UNCHANGED <<connection_state, connected_at, reconnect_count, agg_vars,
                   cursor_vars, chan, result, attempts, cur_msg, attempt_vars, ui_vars,
                   dup_hist_vars, stream_msgs, api_hist_vars>>

\* variant: the error is logged but the Error event is never offered
LogConnectionErrorNoEvent ==
    /\ running /\ ing_pc = "log_error"
    /\ logs' = log_error(logs, <<"Connection error", result>>)
    /\ ing_pc' = "set_reconnecting"
    /\ hist' = Append(hist, <<"log", logs'[Len(logs')].level>>)
    /\ UNCHANGED <<connection_state, connected_at, reconnect_count, agg_vars,
                   cursor_vars, chan, result, attempts, cur_msg, attempt_vars, ui_vars,
                   dup_hist_vars, stream_msgs, api_hist_vars>>

\* client.rs:59-60
LogConnectionError ==
    /\ running /\ ing_pc = "log_error"
    /\ logs' = log_error(logs, <<"Connection error", result>>)
    /\ ing_pc' = "send_error"
    /\ hist' = Append(hist, <<"log", logs'[Len(logs')].level>>)
    /\ UNCHANGED <<connection_state, connected_at, reconnect_count, agg_vars,
                   cursor_vars, chan, result, attempts, cur_msg, attempt_vars, ui_vars,
                   dup_hist_vars, stream_msgs, api_hist_vars>>

\* client.rs:61, tx.send(ClientMessage::Error(..)).await
SendError ==
    /\ running /\ ing_pc = "send_error"
    /\ Len(chan) < CHANNEL_CAPACITY
    /\ chan' = Append(chan, Error(result))
    /\ ing_pc' = "set_reconnecting"
    /\ hist' = Append(hist, <<"offer", chan'[Len(chan')].type>>)
    /\ UNCHANGED <<app_vars, result, attempts, cur_msg, attempt_vars, ui_vars,
                   dup_hist_vars, stream_msgs, api_hist_vars>>

\* client.rs:65
SetReconnecting ==
    /\ running /\ ing_pc = "set_reconnecting"
    /\ set_connection_state("Reconnecting")
    /\ ing_pc' = "inc_reconnect"
    /\ hist' = Append(hist, <<"set", "Reconnecting">>)
    /\ attempts' = [attempts EXCEPT !.reconnecting = @ + 1]
    /\ UNCHANGED <<reconnect_count, agg_vars, cursor_vars, chan, result,
                   cur_msg, attempt_vars, ui_vars, dup_hist_vars, stream_msgs,
                   api_hist_vars>>

\* variant: a stream that ended cleanly is not counted as a reconnect
IncReconnectErrorsOnly ==
    /\ running /\ ing_pc = "inc_reconnect"
    /\ reconnect_count' = IF result = "Ok" THEN reconnect_count
                          ELSE reconnect_count + 1
    /\ ing_pc' = "sleep"
    /\ hist' = Append(hist, <<"reconnect_count", reconnect_count' - reconnect_count>>)
    /\ UNCHANGED <<conn_vars, agg_vars, cursor_vars, chan, result, attempts,
                   cur_msg, attempt_vars, ui_vars, dup_hist_vars, stream_msgs,
                   api_hist_vars>>

\* client.rs:66
IncReconnect ==
    /\ running /\ ing_pc = "inc_reconnect"
    /\ reconnect_count' = reconnect_count + 1
    /\ ing_pc' = "sleep"
    /\ hist' = Append(hist, <<"reconnect_count", reconnect_count' - reconnect_count>>)
    /\ UNCHANGED <<conn_vars, agg_vars, cursor_vars, chan, result, attempts, cur_msg,
                   attempt_vars, ui_vars, dup_hist_vars, stream_msgs,
                   api_hist_vars>>

\* client.rs:68, the fixed delay
Sleep ==
    /\ running /\ ing_pc = "sleep"
    /\ ing_pc' = "top"
    /\ UNCHANGED <<app_vars, chan, result, attempts, cur_msg, attempt_vars, ui_vars,
                   hist_vars>>

IngestorNext(Msgs) ==
    \/ SetConnecting
    \/ CreateChannelOk
    \/ CreateChannelErr
    \/ LogConnected
    \/ SetConnected
    \/ SendConnected
    \/ SubscribeEntriesOk
    \/ SubscribeEntriesErr
    \/ StreamNextMsg(Msgs)
    \/ StreamNextErr
    \/ StreamEnd
    \/ HandleDecodeErr
    \/ HandleEntries
    \/ SendEntries
    \/ LogStreamEnded
    \/ LogConnectionError
    \/ SendError
    \/ SetReconnecting
    \/ IncReconnect
    \/ Sleep

(***************************************************************************)
(* The presentation loop: run_app (main.rs:107-174).  terminal.draw only   *)
(* reads; the loop is at "drain" (the try_recv loop) or at "poll"          *)
(* (poll_event and the match on its event).                                *)
(***************************************************************************)
\* main.rs:112-117, try_recv yields EntriesReceived
RecvEntriesReceived ==
    /\ running /\ ui_pc = "drain"
    /\ chan # <<>>
    /\ Head(chan).type = "EntriesReceived"
    /\ chan' = Tail(chan)
    /\ UNCHANGED <<app_vars, ing_vars, ui_vars, hist_vars>>

\* main.rs:118-120, try_recv yields ConnectionChanged
RecvConnectionChanged ==
    /\ running /\ ui_pc = "drain"
    /\ chan # <<>>
    /\ Head(chan).type = "ConnectionChanged"
    /\ chan' = Tail(chan)
    /\ set_connection_state(Head(chan).state)
    /\ UNCHANGED <<reconnect_count, agg_vars, cursor_vars, ing_vars, ui_vars,
                   hist_vars>>

\* main.rs:121-123, try_recv yields Error
RecvError ==
    /\ running /\ ui_pc = "drain"
    /\ chan # <<>>
    /\ Head(chan).type = "Error"
    /\ chan' = Tail(chan)
    /\ logs' = log_error(logs, <<"Client error", Head(chan).error>>)
    /\ UNCHANGED <<connection_state, connected_at, reconnect_count, agg_vars,
                   cursor_vars, ing_vars, ui_vars, hist_vars>>

\* main.rs:112, try_recv finds the channel empty
DrainDone ==
    /\ running /\ ui_pc = "drain"
    /\ chan = <<>>
    /\ ui_pc' = "poll"
    /\ UNCHANGED <<app_vars, chan, ing_vars, running, hist_vars>>

\* AppState::toggle_help
toggle_help == show_help' = ~show_help

\* variant: the tab after the last one is not the first one
next_tab_no_wrap == selected_tab' = selected_tab + 1

\* AppState::next_tab
next_tab == selected_tab' = (selected_tab + 1) % 8

\* AppState::prev_tab
prev_tab == selected_tab' = IF selected_tab = 0 THEN 7 ELSE selected_tab - 1

\* AppState::scroll_up, saturating_sub
scroll_up == scroll_offset' = IF scroll_offset = 0 THEN 0 ELSE scroll_offset - 1

\* AppState::scroll_down, saturating_add (usize::MAX is out of reach)
scroll_down == scroll_offset' = scroll_offset + 1

InputEvent == {"Quit", "NextTab", "PrevTab", "ScrollUp", "ScrollDown",
               "ResetMetrics", "ToggleHelp", "CloseOverlay", "Tick"}

\* main.rs:128-173, poll_event yields Some(event): the match, arm by arm
HandleEvent(Events) ==
    /\ running /\ ui_pc = "poll"
    /\ \E event \in Events :
        /\ event = "ScrollDown" => scroll_offset < MaxScroll
        /\ event = "ResetMetrics" => metrics_window_start < MaxResets
        /\ CASE event = "Quit" ->
                  /\ logs' = log_info(logs, <<"Shutting down...">>)
                  /\ running' = FALSE
                  /\ ui_pc' = "exited"
                  /\ UNCHANGED <<metrics, cursor_vars>>
             [] event = "CloseOverlay" /\ show_help ->
                  /\ toggle_help
                  /\ ui_pc' = "drain"
                  /\ UNCHANGED <<logs, metrics, selected_tab, scroll_offset,
                                 metrics_window_start, running>>
             [] event = "ToggleHelp" ->
                  /\ toggle_help
                  /\ ui_pc' = "drain"
                  /\ UNCHANGED <<logs, metrics, selected_tab, scroll_offset,
                                 metrics_window_start, running>>
             [] event = "NextTab" /\ ~show_help ->
                  /\ next_tab
                  /\ ui_pc' = "drain"
                  /\ UNCHANGED <<logs, metrics, show_help, scroll_offset,
                                 metrics_window_start, running>>
             [] event = "PrevTab" /\ ~show_help ->
                  /\ prev_tab
                  /\ ui_pc' = "drain"
                  /\ UNCHANGED <<logs, metrics, show_help, scroll_offset,
                                 metrics_window_start, running>>
             [] event = "ScrollUp" /\ ~show_help ->
                  /\ scroll_up
                  /\ ui_pc' = "drain"
                  /\ UNCHANGED <<logs, metrics, show_help, selected_tab,
                                 metrics_window_start, running>>
             [] event = "ScrollDown" /\ ~show_help ->
                  /\ scroll_down
                  /\ ui_pc' = "drain"
                  /\ UNCHANGED <<logs, metrics, show_help, selected_tab,
                                 metrics_window_start, running>>
             [] event = "ResetMetrics" /\ ~show_help ->
                  /\ reset_metrics_window
                  /\ logs' = log_info(logs, <<"Metrics window reset">>)
                  /\ ui_pc' = "drain"
                  /\ UNCHANGED <<show_help, selected_tab, scroll_offset, running>>
             [] event = "Tick" ->
                  /\ ui_pc' = "drain"
                  /\ UNCHANGED <<logs, metrics, cursor_vars, running>>
             [] OTHER ->
                  /\ IF show_help THEN toggle_help ELSE UNCHANGED show_help
                  /\ ui_pc' = "drain"
                  /\ UNCHANGED <<logs, metrics, selected_tab, scroll_offset,
                                 metrics_window_start, running>>
    /\ UNCHANGED <<connection_state, connected_at, reconnect_count,
                   current_slot, slot_history, txn_samples, latency_stats,
                   program_stats, leader_tracker, turbine_stats,
                   competition_stats, wallet_monitor, chan, ing_vars, hist_vars>>

\* events.rs:29-35 and 61, poll_event yields None: a key release or an
\* unmapped key
PollNone ==
    /\ running /\ ui_pc = "poll"
    /\ ui_pc' = "drain"
    /\ UNCHANGED <<app_vars, chan, ing_vars, running, hist_vars>>

UINext(Events) ==
    \/ RecvEntriesReceived
    \/ RecvConnectionChanged
    \/ RecvError
    \/ DrainDone
    \/ HandleEvent(Events)
    \/ PollNone

(***************************************************************************)
(* The running system on the connection path: a feed of undecodable        *)
(* payloads and of batches without transactions, a user who quits or       *)
(* leaves the keyboard alone.                                              *)
(***************************************************************************)
ConnMsgs == {BadMsg(1), BadMsg(2), EntriesMsg(1, << <<>> >>)}

ConnEvents == {"Tick", "Quit"}

Next == IngestorNext(ConnMsgs) \/ UINext(ConnEvents)

Spec == Init /\ [][Next]_vars

(***************************************************************************)
(* The bounded rings, driven through their append operations alone.  The   *)
(* latency, leader and turbine rings have no caller in client.rs or        *)
(* main.rs, so their appends are exercised here directly on the state.     *)
(* appended records every value handed to an append, ring_ops numbers the  *)
(* appends so that all values differ.                                      *)
(***************************************************************************)
ring_frame == <<chan, ing_vars, ui_vars, hist, dup_hist_vars, stream_msgs,
               calls>>

\* AppState::log
ApiLog ==
    /\ ring_ops < MaxRingOps
    /\ \E level \in {"INFO", "WARN", "ERROR"} :
          /\ logs' = Log(logs, level, <<"message", ring_ops>>)
          /\ appended' = [appended EXCEPT
                 !.logs = Append(@, LogEntry(level, <<"message", ring_ops>>))]
    /\ ring_ops' = ring_ops + 1
    /\ UNCHANGED <<connection_state, connected_at, reconnect_count, agg_vars,
                   cursor_vars, ring_frame>>

\* AppState::add_slot
ApiAddSlot ==
    /\ ring_ops < MaxRingOps
    /\ add_slot(ring_ops, 1, 1)
    /\ appended' = [appended EXCEPT
           !.slot_history = Append(@, SlotInfo(ring_ops, 1, 1))]
    /\ ring_ops' = ring_ops + 1
    /\ UNCHANGED <<conn_vars, reconnect_count, txn_samples, latency_stats,
                   program_stats, leader_tracker, turbine_stats,
                   competition_stats, wallet_monitor, cursor_vars, ring_frame>>

\* AppState::add_txn_sample
ApiAddTxnSample ==
    /\ ring_ops < MaxRingOps
    /\ txn_samples' = add_txn_sample(txn_samples, 1, ring_ops, <<>>, FALSE, 0)
    /\ appended' = [appended EXCEPT
           !.txn_samples = Append(@, TxnSample(1, ring_ops, <<>>, FALSE, 0))]
    /\ ring_ops' = ring_ops + 1
    /\ UNCHANGED <<conn_vars, reconnect_count, metrics, current_slot,
                   slot_history, latency_stats, program_stats, leader_tracker,
                   turbine_stats, competition_stats, wallet_monitor,
                   cursor_vars, ring_frame>>

\* CompetitionStats::add_bundle
ApiAddBundle ==
    /\ ring_ops < MaxRingOps
    /\ LET bundle == BundleInfo(ring_ops, 1, 0, "TIP_ACCOUNT_1", <<ring_ops>>)
       IN  /\ competition_stats' = add_bundle(competition_stats, bundle)
           /\ appended' = [appended EXCEPT !.bundles = Append(@, bundle)]
    /\ ring_ops' = ring_ops + 1
    /\ UNCHANGED <<conn_vars, reconnect_count, metrics, current_slot,
                   slot_history, txn_samples, latency_stats, program_stats,
                   leader_tracker, turbine_stats, wallet_monitor,
                   cursor_vars, ring_frame>>

\* WalletMonitor::add_txn
ApiWalletAddTxn ==
    /\ ring_ops < MaxRingOps
    /\ LET txn == WalletTxn(1, ring_ops, TRUE, <<>>)
       IN  /\ wallet_monitor' = wallet_add_txn(wallet_monitor, txn)
           /\ appended' = [appended EXCEPT
                  !.wallet_transactions = Append(@, txn)]
    /\ ring_ops' = ring_ops + 1
    /\ UNCHANGED <<conn_vars, reconnect_count, metrics, current_slot,
                   slot_history, txn_samples, latency_stats, program_stats,
                   leader_tracker, turbine_stats, competition_stats,
                   cursor_vars, ring_frame>>

\* LatencyStats::add_sample
ApiLatencyAddSample ==
    /\ ring_ops < MaxRingOps
    /\ LET sample == [slot |-> ring_ops, shred_latency_us |-> 1,
                      leader |-> "None", region |-> "None"]
       IN  /\ latency_stats' = latency_add_sample(latency_stats, sample)
           /\ appended' = [appended EXCEPT
                  !.latency_samples = Append(@, sample)]
    /\ ring_ops' = ring_ops + 1
    /\ UNCHANGED <<conn_vars, reconnect_count, metrics, current_slot,
                   slot_history, txn_samples, program_stats, leader_tracker,
                   turbine_stats, competition_stats, wallet_monitor,
                   cursor_vars, ring_frame>>

\* LeaderTracker::record_slot
ApiLeaderRecordSlot ==
    /\ ring_ops < MaxRingOps
    /\ LET info == [slot |-> ring_ops, leader |-> "leader", skip |-> FALSE,
                    txn_count |-> 1]
       IN  /\ leader_tracker' = record_slot(leader_tracker, info)
           /\ appended' = [appended EXCEPT
                  !.leader_history = Append(@, info)]
    /\ ring_ops' = ring_ops + 1
    /\ UNCHANGED <<conn_vars, reconnect_count, metrics, current_slot,
                   slot_history, txn_samples, latency_stats, program_stats,
                   turbine_stats, competition_stats, wallet_monitor,
                   cursor_vars, ring_frame>>

\* TurbineStats::add_sample
ApiTurbineAddSample ==
    /\ ring_ops < MaxRingOps
    /\ LET info == [slot |-> ring_ops, turbine_index |-> 1, layer |-> 0]
       IN  /\ turbine_stats' = turbine_add_sample(turbine_stats, info)
           /\ appended' = [appended EXCEPT
                  !.turbine_samples = Append(@, info)]
    /\ ring_ops' = ring_ops + 1
    /\ UNCHANGED <<conn_vars, reconnect_count, metrics, current_slot,
                   slot_history, txn_samples, latency_stats, program_stats,
                   leader_tracker, competition_stats, wallet_monitor,
                   cursor_vars, ring_frame>>

RingNext ==
    \/ ApiLog
    \/ ApiAddSlot
    \/ ApiAddTxnSample
    \/ ApiAddBundle
    \/ ApiWalletAddTxn
    \/ ApiLatencyAddSample
    \/ ApiLeaderRecordSlot
    \/ ApiTurbineAddSample

RingSpec == Init /\ [][RingNext]_vars

(***************************************************************************)
(* The duplicate detector under a feed of signed transactions.  The code   *)
(* only compares signatures for equality, so within an attempt a feed may  *)
(* introduce new signatures in the order 1, 2, 3, ... without loss: the    *)
(* set is then always 1 .. k.  0 stands for a transaction without          *)
(* signatures.                                                             *)
(***************************************************************************)
RECURSIVE SigLists(_, _)
\* the lists of at most n first signatures, k signatures being known
SigLists(k, n) ==
    IF n = 0 THEN {<<>>}
    ELSE {<<>>} \cup
         UNION {{<<s>> \o rest :
                   rest \in SigLists(IF s > k THEN s ELSE k, n - 1)} :
                s \in 0 .. (IF k + 1 < NumSigs THEN k + 1 ELSE NumSigs)}

\* one entry holding one transaction per element of the list
MsgOfSigs(l) ==
    EntriesMsg(1, << [i \in 1 .. Len(l) |->
                        IF l[i] = 0 THEN Txn(<<>>, <<>>)
                        ELSE Txn(<<l[i]>>, <<>>)] >>)

DupMsgs == {MsgOfSigs(l) : l \in SigLists(Cardinality(recent_sigs), MaxTxnsPerMsg)}

DupEvents == {"Tick"}

DupNext == IngestorNext(DupMsgs) \/ UINext(DupEvents)

DupSpec == Init /\ [][DupNext]_vars

(***************************************************************************)
(* The classification of transactions under a feed whose transactions      *)
(* reference registry programs and tip accounts.  The first message of a   *)
(* run carries up to three transactions in one entry, followed by an empty *)
(* entry (or no entry at all); later messages carry one.                   *)
(***************************************************************************)
\* the transactions of the feed: without a match, with one DEX program,
\* with two DEX programs, with programs of two categories, with a tip
\* account, and one without signatures
ClassTxns ==
    {Txn(<<1>>, <<"UNKNOWN_KEY">>),
     Txn(<<1>>, <<"JUPITER_V6">>),
     Txn(<<1>>, <<"JUPITER_V6", "RAYDIUM_V4">>),
     Txn(<<1>>, <<"JUPITER_V6", "MARGINFI">>),
     Txn(<<1>>, <<"TIP_ACCOUNT_1">>),
     Txn(<<2>>, <<"UNKNOWN_KEY">>),
     Txn(<<2>>, <<"MARINADE", "JITO_TIP">>),
     Txn(<<2>>, <<"TIP_ACCOUNT_2">>),
     Txn(<<>>, <<"TIP_ACCOUNT_1", "JUPITER_V6">>)}

ClassFirstMsgs ==
    {EntriesMsg(2, <<>>), EntriesMsg(2, << <<>>, <<>> >>)}
        \cup {EntriesMsg(2, << <<a>>, <<>> >>) : a \in ClassTxns}
        \cup {EntriesMsg(2, << <<a, b>>, <<>> >>) : a \in ClassTxns, b \in ClassTxns}
        \cup {EntriesMsg(2, << <<a, b, c>>, <<>> >>) :
                 a \in ClassTxns, b \in ClassTxns, c \in ClassTxns}

ClassLaterMsgs ==
    {EntriesMsg(1, << <<Txn(<<1>>, <<"UNKNOWN_KEY">>)>> >>),
     EntriesMsg(1, << <<Txn(<<1>>, <<"JUPITER_V6">>)>> >>),
     EntriesMsg(1, << <<Txn(<<>>, <<"TIP_ACCOUNT_1", "JUPITER_V6">>)>> >>)}

ClassMsgs == IF stream_msgs = 0 THEN ClassFirstMsgs ELSE ClassLaterMsgs

ClassEvents == {"Tick"}

\* every connection and subscription succeeds and the stream stays up
ClassNext ==
    \/ SetConnecting
    \/ CreateChannelOk
    \/ LogConnected
    \/ SetConnected
    \/ SendConnected
    \/ SubscribeEntriesOk
    \/ StreamNextMsg(ClassMsgs)
    \/ HandleEntries
    \/ SendEntries
    \/ RecvEntriesReceived
    \/ RecvConnectionChanged
    \/ DrainDone
    \/ HandleEvent(ClassEvents)

ClassSpec == Init /\ [][ClassNext]_vars

(***************************************************************************)
(* Counter runs: the client task with its reconnects and the presentation  *)
(* loop with the key that restarts the metrics window.  The stream yields  *)
(* batches that move every kind of counter, and undecodable messages.      *)
(***************************************************************************)
CounterMsgs ==
    {BadMsg(1),
     EntriesMsg(1, << <<Txn(<<1>>, <<"JUPITER_V6", "TIP_ACCOUNT_1">>)>> >>),
     EntriesMsg(2, << <<Txn(<<1>>, <<"MARGINFI">>),
                        Txn(<<2>>, <<"MARINADE", "JITO_TIP">>)>>, <<>> >>)}

CounterEvents == {"Tick", "ResetMetrics", "Quit"}

CounterNext == IngestorNext(CounterMsgs) \/ UINext(CounterEvents)

CounterSpec == Init /\ [][CounterNext]_vars

(***************************************************************************)
(* The trackers driven through their update operations with inputs of      *)
(* every kind: slots out of order, every phase, every turbine layer,       *)
(* leaders with and without skips, programs in and out of the registry.    *)
(***************************************************************************)
StatSlots == 1 .. MaxSlot

StatPhases ==
    {"Disconnected", "Connecting", "Connected", "Reconnecting", "Error"}

\* AppState::add_slot with any slot number
StatAddSlot ==
    /\ ring_ops < MaxRingOps
    /\ \E slot \in StatSlots :
          /\ add_slot(slot, 1, 1)
          /\ appended' = [appended EXCEPT
                 !.slot_history = Append(@, SlotInfo(slot, 1, 1))]
    /\ ring_ops' = ring_ops + 1
    /\ UNCHANGED <<conn_vars, reconnect_count, txn_samples, latency_stats,
                   program_stats, leader_tracker, turbine_stats,
                   competition_stats, wallet_monitor, cursor_vars, ring_frame>>

\* AppState::set_connection_state with the phase state
StatSetConnectionState(state) ==
    /\ ring_ops < MaxRingOps
    /\ set_connection_state(state)
    /\ ring_ops' = ring_ops + 1
    /\ UNCHANGED <<reconnect_count, agg_vars, cursor_vars, ring_frame,
                   appended>>

StatSetPhase == \E state \in StatPhases : StatSetConnectionState(state)

StatLayers == 0 .. MaxLayer

\* TurbineStats::add_sample with any layer
StatTurbineAddSample ==
    /\ ring_ops < MaxRingOps
    /\ \E layer \in StatLayers :
          LET info == [slot |-> 1, turbine_index |-> 1, layer |-> layer]
          IN  /\ turbine_stats' = turbine_add_sample(turbine_stats, info)
              /\ appended' = [appended EXCEPT
                     !.turbine_samples = Append(@, info)]
    /\ ring_ops' = ring_ops + 1
    /\ UNCHANGED <<conn_vars, reconnect_count, metrics, current_slot,
                   slot_history, txn_samples, latency_stats, program_stats,
                   leader_tracker, competition_stats, wallet_monitor,
                   cursor_vars, ring_frame>>

StatLeaders == {"leader_a", "leader_b"}

\* LeaderTracker::record_slot with any leader, skipped or not
StatLeaderRecordSlot ==
    /\ ring_ops < MaxRingOps
    /\ \E leader \in StatLeaders, skip \in BOOLEAN,
          txn_count \in {0, MaxLeaderTxns} :
          LET info == [slot |-> 1, leader |-> leader, skip |-> skip,
                       txn_count |-> txn_count]
          IN  /\ leader_tracker' = record_slot(leader_tracker, info)
              /\ appended' = [appended EXCEPT
                     !.leader_history = Append(@, info)]
    /\ ring_ops' = ring_ops + 1
    /\ UNCHANGED <<conn_vars, reconnect_count, metrics, current_slot,
                   slot_history, txn_samples, latency_stats, program_stats,
                   turbine_stats, competition_stats, wallet_monitor,
                   cursor_vars, ring_frame>>

StatProgramIds == {"JUPITER_V6", "MARGINFI", "UNKNOWN_KEY", "UNKNOWN_KEY_2"}

\* ProgramStats::record_program with the id program_id
StatRecordProgram(program_id) ==
    /\ ring_ops < MaxRingOps
    /\ program_stats' = record_program(program_stats, program_id)
    /\ ring_ops' = ring_ops + 1
    /\ UNCHANGED <<conn_vars, reconnect_count, metrics, current_slot,
                   slot_history, txn_samples, latency_stats, leader_tracker,
                   turbine_stats, competition_stats, wallet_monitor,
                   cursor_vars, ring_frame, appended>>

StatRecordAnyProgram ==
    \E program_id \in StatProgramIds : StatRecordProgram(program_id)

StatsNext ==
    \/ StatAddSlot
    \/ StatSetPhase
    \/ StatTurbineAddSample
    \/ StatLeaderRecordSlot
    \/ StatRecordAnyProgram

StatsSpec == Init /\ [][StatsNext]_vars

(***************************************************************************)
(* Wallet runs: the monitored address is configured from outside the       *)
(* ingestion path, at any moment or never; the stream carries signed and   *)
(* unsigned transactions that hold the address once, twice or not at all.  *)
(***************************************************************************)
WalletTxns ==
    {Txn(<<1>>, <<"WALLET">>), Txn(<<2>>, <<"JUPITER_V6", "WALLET", "WALLET">>),
     Txn(<<2>>, <<"TIP_ACCOUNT_1", "JUPITER_V6", "WALLET">>),
     Txn(<<3>>, <<"JUPITER_V6">>), Txn(<<>>, <<"WALLET">>)}

WalletFirstMsgs ==
    {EntriesMsg(2, << <<>> >>)}
        \cup {EntriesMsg(2, << <<a>> >>) : a \in WalletTxns}
        \cup {EntriesMsg(2, << <<a>>, <<b>> >>) : a \in WalletTxns, b \in WalletTxns}
        \cup {EntriesMsg(2, << <<a, b, c>> >>) : a, b, c \in WalletTxns}

WalletLaterMsgs ==
    {EntriesMsg(1, << <<Txn(<<1>>, <<"WALLET">>)>> >>),
     EntriesMsg(1, << <<Txn(<<3>>, <<"JUPITER_V6">>)>> >>)}

WalletMsgs == IF stream_msgs = 0 THEN WalletFirstMsgs ELSE WalletLaterMsgs

\* WalletMonitor::set_wallet, called by the configuration
ApiSetWallet ==
    /\ wallet_monitor.wallet = "None"
    /\ wallet_monitor' = wallet_set_wallet(wallet_monitor, "WALLET")
    /\ UNCHANGED <<conn_vars, reconnect_count, metrics, current_slot,
                   slot_history, txn_samples, latency_stats, program_stats,
                   leader_tracker, turbine_stats, competition_stats,
                   cursor_vars, ring_frame, api_hist_vars>>

WalletNext ==
    \/ ApiSetWallet
    \/ SetConnecting
    \/ CreateChannelOk
    \/ LogConnected
    \/ SetConnected
    \/ SendConnected
    \/ SubscribeEntriesOk
    \/ StreamNextMsg(WalletMsgs)
    \/ HandleEntries
    \/ SendEntries
    \/ RecvEntriesReceived
    \/ RecvConnectionChanged
    \/ DrainDone
    \/ HandleEvent(ClassEvents)

WalletSpec == Init /\ [][WalletNext]_vars

(***************************************************************************)
(* ShredMetrics under two threads, one atomic operation per step: the      *)
(* ingestion task inside add_entry (four fetch_add, state.rs:702-707) and  *)
(* the presentation loop inside reset_metrics_window (the write of the     *)
(* window start, then the seven stores of reset_window, state.rs:719-727). *)
(***************************************************************************)
metrics_frame == <<conn_vars, reconnect_count, current_slot, slot_history,
                   txn_samples, latency_stats, program_stats, leader_tracker,
                   turbine_stats, competition_stats, wallet_monitor,
                   selected_tab, scroll_offset, show_help, chan, ing_vars,
                   ui_vars, hist, dup_hist_vars, stream_msgs, appended>>

\* the counters add_entry advances, in the order of its fetch_add
AddEntrySteps == <<"entry_count", "txn_count", "total_entries", "total_txns">>

\* the counters reset_window stores 0 to, in the order of its stores
ResetSteps ==
    <<"received", "success_forward", "fail_forward", "duplicate",
      "entry_count", "txn_count", "recovered_count">>

\* ShredMetrics::add_entry is entered
AddEntryBegin ==
    /\ ring_ops < MaxRingOps
    /\ calls.add_entry.pc = 0
    /\ \E txn_count \in {0, 1} :
          calls' = [calls EXCEPT !.add_entry =
                       [pc |-> 1, entry_count |-> 1, txn_count |-> txn_count]]
    /\ ring_ops' = ring_ops + 1
    /\ UNCHANGED <<metrics, metrics_window_start, metrics_frame>>

\* one fetch_add of ShredMetrics::add_entry
AddEntryFetchAdd ==
    /\ calls.add_entry.pc # 0
    /\ LET pc == calls.add_entry.pc
           field == AddEntrySteps[pc]
           by == IF field \in {"entry_count", "total_entries"}
                 THEN calls.add_entry.entry_count
                 ELSE calls.add_entry.txn_count
       IN  /\ metrics' = [metrics EXCEPT ![field] = @ + by]
           /\ calls' = [calls EXCEPT !.add_entry.pc =
                           IF pc = Len(AddEntrySteps) THEN 0 ELSE pc + 1]
    /\ UNCHANGED <<metrics_window_start, ring_ops, metrics_frame>>

\* AppState::reset_metrics_window is entered: the window start is written
ResetBegin ==
    /\ metrics_window_start < MaxResets
    /\ calls.reset.pc = 0
    /\ metrics_window_start' = metrics_window_start + 1
    /\ calls' = [calls EXCEPT !.reset.pc = 1]
    /\ UNCHANGED <<metrics, ring_ops, metrics_frame>>

\* one store of ShredMetrics::reset_window
ResetStore ==
    /\ calls.reset.pc # 0
    /\ LET pc == calls.reset.pc
       IN  /\ metrics' = [metrics EXCEPT ![ResetSteps[pc]] = 0]
           /\ calls' = [calls EXCEPT !.reset.pc =
                           IF pc = Len(ResetSteps) THEN 0 ELSE pc + 1]
    /\ UNCHANGED <<metrics_window_start, ring_ops, metrics_frame>>

MetricsNext ==
    \/ AddEntryBegin
    \/ AddEntryFetchAdd
    \/ ResetBegin
    \/ ResetStore

MetricsSpec == Init /\ [][MetricsNext]_vars

(***************************************************************************)
(* LatencyStats::add_sample called from two threads, one atomic operation  *)
(* per step (state.rs:180-203): the two fetch_add, the load and the        *)
(* compare-exchange loop of the minimum, the same for the maximum, then    *)
(* the locked updates.  compare_exchange_weak may also fail when the value *)
(* is the expected one; it then hands back that same value and the loop    *)
(* comes round to the same state.                                          *)
(***************************************************************************)
latency_frame == <<conn_vars, reconnect_count, metrics, current_slot,
                   slot_history, txn_samples, program_stats, leader_tracker,
                   turbine_stats, competition_stats, wallet_monitor,
                   cursor_vars, chan, ing_vars, ui_vars, hist, dup_hist_vars,
                   stream_msgs>>

SampleLatencies == {0, 1, 2, U64_MAX}

\* the thread t enters add_sample
AddSampleBegin(t) ==
    /\ ring_ops < MaxRingOps
    /\ calls.add_sample[t].pc = 0
    /\ \E latency \in SampleLatencies :
          calls' = [calls EXCEPT !.add_sample[t] =
                       [pc |-> 1, latency |-> latency, current |-> 0]]
    /\ ring_ops' = ring_ops + 1
    /\ UNCHANGED <<latency_stats, appended, latency_frame>>

\* total_latency_us.fetch_add, then sample_count.fetch_add
AddSampleFetchAdd(t) ==
    /\ calls.add_sample[t].pc \in {1, 2}
    /\ latency_stats' =
           IF calls.add_sample[t].pc = 1
           THEN [latency_stats EXCEPT
                    !.total_latency_us = @ + calls.add_sample[t].latency]
           ELSE [latency_stats EXCEPT !.sample_count = @ + 1]
    /\ calls' = [calls EXCEPT !.add_sample[t].pc = @ + 1]
    /\ UNCHANGED <<ring_ops, appended, latency_frame>>

\* min_latency_us.load, max_latency_us.load
AddSampleLoad(t) ==
    /\ calls.add_sample[t].pc \in {3, 5}
    /\ calls' = [calls EXCEPT
           !.add_sample[t].current =
               IF calls.add_sample[t].pc = 3
               THEN latency_stats.min_latency_us
               ELSE latency_stats.max_latency_us,
           !.add_sample[t].pc = @ + 1]
    /\ UNCHANGED <<latency_stats, ring_ops, appended, latency_frame>>

\* variant: a failed compare-exchange ends the loop
AddSampleUpdateMinNoRetry(t) ==
    /\ calls.add_sample[t].pc = 4
    /\ LET latency == calls.add_sample[t].latency
           current_min == calls.add_sample[t].current
       IN  IF latency < current_min /\ latency_stats.min_latency_us = current_min
           THEN latency_stats' =
                    [latency_stats EXCEPT !.min_latency_us = latency]
           ELSE UNCHANGED latency_stats
    /\ calls' = [calls EXCEPT !.add_sample[t].pc = 5]
    /\ UNCHANGED <<ring_ops, appended, latency_frame>>

\* one turn of the loop of the minimum
AddSampleUpdateMin(t) ==
    /\ calls.add_sample[t].pc = 4
    /\ LET latency == calls.add_sample[t].latency
           current_min == calls.add_sample[t].current
       IN  IF latency < current_min
           THEN IF latency_stats.min_latency_us = current_min
                THEN /\ latency_stats' =
                            [latency_stats EXCEPT !.min_latency_us = latency]
                     /\ calls' = [calls EXCEPT !.add_sample[t].pc = 5]
                ELSE /\ calls' = [calls EXCEPT !.add_sample[t].current =
                                     latency_stats.min_latency_us]
                     /\ UNCHANGED latency_stats
           ELSE /\ calls' = [calls EXCEPT !.add_sample[t].pc = 5]
                /\ UNCHANGED latency_stats
    /\ UNCHANGED <<ring_ops, appended, latency_frame>>

\* one turn of the loop of the maximum
AddSampleUpdateMax(t) ==
    /\ calls.add_sample[t].pc = 6
    /\ LET latency == calls.add_sample[t].latency
           current_max == calls.add_sample[t].current
       IN  IF latency > current_max
           THEN IF latency_stats.max_latency_us = current_max
                THEN /\ latency_stats' =
                            [latency_stats EXCEPT !.max_latency_us = latency]
                     /\ calls' = [calls EXCEPT !.add_sample[t].pc = 7]
                ELSE /\ calls' = [calls EXCEPT !.add_sample[t].current =
                                     latency_stats.max_latency_us]
                     /\ UNCHANGED latency_stats
           ELSE /\ calls' = [calls EXCEPT !.add_sample[t].pc = 7]
                /\ UNCHANGED latency_stats
    /\ UNCHANGED <<ring_ops, appended, latency_frame>>

\* the locked updates and the return
AddSampleRecord(t) ==
    /\ calls.add_sample[t].pc = 7
    /\ LET sample == [slot |-> 1,
                      shred_latency_us |-> calls.add_sample[t].latency,
                      leader |-> "None", region |-> "None"]
       IN  /\ latency_stats' = latency_record_sample(latency_stats, sample)
           /\ appended' = [appended EXCEPT
                  !.latency_samples = Append(@, sample)]
    /\ calls' = [calls EXCEPT !.add_sample[t].pc = 0]
    /\ UNCHANGED <<ring_ops, latency_frame>>

LatencyNext ==
    \E t \in LatencyThreads :
        \/ AddSampleBegin(t)
        \/ AddSampleFetchAdd(t)
        \/ AddSampleLoad(t)
        \/ AddSampleUpdateMin(t)
        \/ AddSampleUpdateMax(t)
        \/ AddSampleRecord(t)

LatencySpec == Init /\ [][LatencyNext]_vars

(***************************************************************************)
(* The per-leader and per-region latency statistics, driven through        *)
(* add_sample with samples that name a leader or a region.                 *)
(***************************************************************************)
\* the optional leader and region of a sample
SampleKeys ==
    {[leader |-> "leader_a", region |-> "None"],
     [leader |-> "leader_b", region |-> "region_a"],
     [leader |-> "None", region |-> "region_a"]}

\* LatencyStats::add_sample with any latency, leader and region
KeyedAddSample ==
    /\ ring_ops < MaxRingOps
    /\ \E latency \in SampleLatencies \ {U64_MAX}, key \in SampleKeys :
          LET sample == [slot |-> 1, shred_latency_us |-> latency,
                         leader |-> key.leader, region |-> key.region]
          IN  /\ latency_stats' = latency_add_sample(latency_stats, sample)
              /\ appended' = [appended EXCEPT
                     !.latency_samples = Append(@, sample)]
    /\ ring_ops' = ring_ops + 1
    /\ UNCHANGED <<conn_vars, reconnect_count, metrics, current_slot,
                   slot_history, txn_samples, program_stats, leader_tracker,
                   turbine_stats, competition_stats, wallet_monitor,
                   cursor_vars, ring_frame>>

KeyedSpec == Init /\ [][KeyedAddSample]_vars


(***************************************************************************)
(* The presentation loop under every input event, next to a stream of      *)
(* one-transaction batches.                                                *)
(***************************************************************************)
KeyMsgs == {EntriesMsg(1, << <<Txn(<<1>>, <<"JUPITER_V6">>)>> >>)}

\* every connection and subscription succeeds and the stream stays up
KeyNext ==
    \/ SetConnecting
    \/ CreateChannelOk
    \/ LogConnected
    \/ SetConnected
    \/ SendConnected
    \/ SubscribeEntriesOk
    \/ StreamNextMsg(KeyMsgs)
    \/ HandleEntries
    \/ SendEntries
    \/ RecvEntriesReceived
    \/ RecvConnectionChanged
    \/ DrainDone
    \/ HandleEvent(InputEvent)

KeySpec == Init /\ [][KeyNext]_vars


(***************************************************************************)
(* The locks of AppState: each operation of the two tasks as the sequence  *)
(* of lock acquisitions and releases it makes.  A guard bound by let lives *)
(* to the end of its block, a temporary guard to the end of its statement, *)
(* the guard of an if-let scrutinee to the end of the if-let.              *)
(***************************************************************************)
Acq(lock, mode) == [kind |-> "acquire", lock |-> lock, mode |-> mode]
Rel(lock) == [kind |-> "release", lock |-> lock, mode |-> "none"]

\* variant: the logs tab reads the phase while it holds the log lock
draw_logs_tab_reads_phase ==
    <<Acq("logs", "read"), Acq("connection_state", "read"),
      Rel("connection_state"), Rel("logs")>>

\* ui.rs draw_logs_tab: the log lock is read-held to the end of the function
draw_logs_tab == <<Acq("logs", "read"), Rel("logs")>>

\* the lock operations of an operation, in program order
LockPath(op) ==
    CASE op = "set_connection_state:same" ->
             <<Acq("connection_state", "write"), Rel("connection_state")>>
      [] op = "set_connection_state:changed" ->
             <<Acq("connection_state", "write"), Acq("logs", "write"),
               Rel("logs"), Rel("connection_state")>>
      [] op = "set_connection_state:connected" ->
             <<Acq("connection_state", "write"), Acq("logs", "write"),
               Rel("logs"), Acq("connected_at", "write"),
               Rel("connected_at"), Rel("connection_state")>>
      [] op = "log" ->
             <<Acq("logs", "write"), Rel("logs")>>
      [] op = "sample_txn" ->
             <<Acq("txn_samples", "read"), Rel("txn_samples"),
               Acq("txn_samples", "write"), Rel("txn_samples")>>
      [] op = "check_wallet:none" ->
             <<Acq("wallet", "read"), Rel("wallet")>>
      [] op = "check_wallet:match" ->
             <<Acq("wallet", "read"), Acq("transactions", "write"),
               Rel("transactions"), Rel("wallet")>>
      [] op = "draw_header" ->
             <<Acq("connection_state", "read"), Rel("connection_state")>>
      [] op = "connection_duration" ->
             <<Acq("connected_at", "read"), Rel("connected_at")>>
      [] op = "draw_logs_tab" -> draw_logs_tab
      [] op = "draw_wallet_tab" ->
             <<Acq("wallet", "read"), Acq("transactions", "read"),
               Rel("transactions"), Rel("wallet")>>
      [] op = "toggle_help" ->
             <<Acq("show_help", "read"), Rel("show_help"),
               Acq("show_help", "write"), Rel("show_help")>>

\* what each task runs: try_subscribe and subscribe for the ingestion task,
\* draw, the message drain and the event match for the presentation loop
LockOps(task) ==
    IF task = "ingest"
    THEN {"set_connection_state:same", "set_connection_state:changed",
          "set_connection_state:connected", "log", "sample_txn",
          "check_wallet:none", "check_wallet:match"}
    ELSE {"set_connection_state:same", "set_connection_state:changed",
          "set_connection_state:connected", "log", "draw_header",
          "connection_duration", "draw_logs_tab", "draw_wallet_tab",
          "toggle_help"}

\* the lock operations a task has done in its current operation
LockDone(task) ==
    IF calls.locking[task].op = "idle" THEN <<>>
    ELSE SubSeq(LockPath(calls.locking[task].op), 1, calls.locking[task].done)

\* the mode in which the task holds the lock, "none" when it does not
RECURSIVE HeldAfter(_, _)
HeldAfter(done, lock) ==
    IF done = <<>> THEN "none"
    ELSE LET last == done[Len(done)]
         IN  IF last.lock = lock
             THEN (IF last.kind = "acquire" THEN last.mode ELSE "none")
             ELSE HeldAfter(SubSeq(done, 1, Len(done) - 1), lock)

LockHeld(task, lock) == HeldAfter(LockDone(task), lock)

\* the lock operation the task is about to make
LockPending(task) ==
    LockPath(calls.locking[task].op)[calls.locking[task].done + 1]

LockRunning(task) == calls.locking[task].op # "idle"

\* the task waits for the write lock
WaitsToWrite(task, lock) ==
    /\ LockRunning(task)
    /\ LockPending(task).kind = "acquire"
    /\ LockPending(task).lock = lock
    /\ LockPending(task).mode = "write"

\* parking_lot::RwLock: a writer needs the lock free; a reader needs it free
\* of writers, and is held back while a writer waits
LockGranted(task, request) ==
    IF request.mode = "write"
    THEN \A t \in LockTasks : LockHeld(t, request.lock) = "none"
    ELSE /\ \A t \in LockTasks : LockHeld(t, request.lock) # "write"
         /\ \A t \in LockTasks \ {task} : ~WaitsToWrite(t, request.lock)

lock_frame == <<app_vars, chan, ing_vars, ui_vars, hist, dup_hist_vars,
                stream_msgs, appended, ring_ops>>

\* a task enters an operation
LockBegin ==
    /\ \E task \in LockTasks : \E op \in LockOps(task) :
          /\ ~LockRunning(task)
          /\ calls' = [calls EXCEPT !.locking[task] = [op |-> op, done |-> 0]]
    /\ UNCHANGED lock_frame

\* a task makes its next lock operation, and returns after the last one
LockStep ==
    /\ \E task \in LockTasks :
          /\ LockRunning(task)
          /\ LockPending(task).kind = "acquire" =>
                 LockGranted(task, LockPending(task))
          /\ calls' = [calls EXCEPT !.locking[task] =
                 IF @.done + 1 = Len(LockPath(@.op))
                 THEN [op |-> "idle", done |-> 0]
                 ELSE [@ EXCEPT !.done = @ + 1]]
    /\ UNCHANGED lock_frame

LockNext == LockBegin \/ LockStep

LockSpec == Init /\ [][LockNext]_vars

\* the same system with the ingestion task scheduled fairly: the task runs
\* on the tokio runtime and is polled whenever it can make progress
FairSpec == Spec /\ WF_vars(IngestorNext(ConnMsgs))

(***************************************************************************)
(* The connection path.                                                    *)
(***************************************************************************)
\* the places of the ingestion task between the end of try_subscribe and
\* the next set_connection_state(Connecting)
EndedPcs == {"log_ended", "log_error", "send_error", "set_reconnecting",
             "inc_reconnect", "sleep", "top"}

\* the attempt has ended by a break of an established stream
StreamBroke == ing_pc \in EndedPcs /\ result \in {"Ok", "Err:stream"}

\* how often the tag occurs in the iteration's history
Occurrences(tag) == Cardinality({i \in DOMAIN hist : hist[i] = tag})

\* C1: after a break of the stream in phase Connected, the phase is written
\* Reconnecting and then Connecting and nothing else, and reconnect_count
\* goes up by exactly 1 before the next attempt starts.
C1_BreakDrivesReconnectingThenConnecting ==
    [][StreamBroke =>
         /\ connection_state' # connection_state =>
               \/ connection_state = "Connected"
                    /\ connection_state' = "Reconnecting"
               \/ connection_state = "Reconnecting"
                    /\ connection_state' = "Connecting"
         /\ reconnect_count' # reconnect_count =>
               reconnect_count' = reconnect_count + 1
         /\ (ing_pc = "top" /\ ing_pc' = "connect") =>
               Occurrences(<<"reconnect_count", 1>>) = 1]_vars

\* C2: the ingestion task is never waiting for the presentation loop to
\* make room in the notification channel.
C2_IngestorNeverWaitsOnChannel ==
    ~(ing_pc = "send_entries" /\ Len(chan) >= CHANNEL_CAPACITY)

\* C3: only steps of the ingestion task change connection_state or
\* connected_at.
C3_PhaseWrittenOnlyByIngestor ==
    [][(connection_state' # connection_state \/ connected_at' # connected_at)
          => ing_pc' # ing_pc]_vars

\* the attempt has ended and the exploration leaves room for another one
AttemptEnded ==
    /\ running
    /\ ing_pc \in EndedPcs /\ result # "pending"
    /\ IF ing_pc \in {"sleep", "top"}
       THEN reconnect_count < MaxReconnects
       ELSE reconnect_count + 1 < MaxReconnects

C5_DecodeFailureOnlyWarns ==
    [][(ing_pc = "handle" /\ ~cur_msg.ok /\ ing_pc' # ing_pc) =>
         /\ ing_pc' = "stream"
         /\ result' = "pending"
         /\ logs' = Append(IF Len(logs) >= MAX_LOG_ENTRIES THEN Tail(logs) ELSE logs,
                           [level |-> "WARN",
                            message |-> <<"Failed to deserialize entries for slot",
                                          cur_msg.slot>>])
         /\ UNCHANGED <<agg_vars, connection_state, connected_at,
                        reconnect_count, chan, attempt_vars>>]_vars

\* a decode failure has just been handled
C5_Witness ==
    /\ ing_pc = "stream"
    /\ logs[Len(logs)] = [level |-> "WARN",
                          message |-> <<"Failed to deserialize entries for slot", 2>>]

\* what the loop iteration does, by the way the attempt ended
ExpectedIteration ==
    LET connected == << <<"set", "Connecting">>, <<"log", "INFO">>,
                        <<"set", "Connected">>, <<"offer", "ConnectionChanged">> >>
        failed == << <<"log", "ERROR">>, <<"offer", "Error">>,
                     <<"set", "Reconnecting">>, <<"reconnect_count", 1>> >>
    IN  CASE result = "Err:connect"   -> << <<"set", "Connecting">> >> \o failed
          [] result = "Err:subscribe" -> connected \o failed
          [] result = "Err:stream"    -> connected \o << <<"subscribed", "">> >> \o failed
          [] result = "Ok"            ->
                 connected \o << <<"subscribed", "">>, <<"log", "INFO">>,
                                 <<"set", "Reconnecting">>, <<"reconnect_count", 1>> >>
          [] OTHER -> <<>>

\* C6: an attempt that ends in an error logs at ERROR, offers the Error
\* event, and only then sets Reconnecting and counts the reconnect; a clean
\* end takes the same path with an INFO line and no Error event.
C6_ErrorThenReconnect ==
    ing_pc = "sleep" => hist = ExpectedIteration

\* a transport error of an established stream has run through the path
C6_Witness == ing_pc = "sleep" /\ result = "Err:stream"

(***************************************************************************)
(* The bounded rings.                                                      *)
(***************************************************************************)
\* the ring holds the last min(N, capacity) of the N values of all
RingHoldsLast(ring, all, capacity) ==
    /\ Len(ring) = (IF Len(all) < capacity THEN Len(all) ELSE capacity)
    /\ Len(ring) <= capacity
    /\ \A i \in 1 .. Len(ring) : ring[i] = all[Len(all) - Len(ring) + i]

\* C7: each of the eight rings holds min(N, C) elements, namely the last
\* min(N, C) of the N values appended to it, in the order of their
\* insertion, and is never longer than its capacity C.
C7_RingsHoldLastAppended ==
    /\ RingHoldsLast(logs, appended.logs, MAX_LOG_ENTRIES)
    /\ RingHoldsLast(slot_history, appended.slot_history, MAX_SLOT_HISTORY)
    /\ RingHoldsLast(txn_samples, appended.txn_samples, MAX_TXN_SAMPLES)
    /\ RingHoldsLast(competition_stats.bundles, appended.bundles,
                     MAX_BUNDLE_SAMPLES)
    /\ RingHoldsLast(wallet_monitor.transactions, appended.wallet_transactions,
                     MAX_TXN_SAMPLES)
    /\ RingHoldsLast(latency_stats.samples, appended.latency_samples,
                     MAX_LATENCY_SAMPLES)
    /\ RingHoldsLast(leader_tracker.slot_history, appended.leader_history,
                     MAX_LEADER_HISTORY)
    /\ RingHoldsLast(turbine_stats.samples, appended.turbine_samples,
                     MAX_LATENCY_SAMPLES)

\* two rings have taken more appends than they hold
C7_Witness ==
    /\ Len(appended.logs) > MAX_LOG_ENTRIES
    /\ Len(appended.slot_history) > MAX_SLOT_HISTORY

(***************************************************************************)
(* The duplicate detector.                                                 *)
(***************************************************************************)
\* the attempt is reading its stream
InAttempt == ing_pc \in {"stream", "handle", "send_entries"}

\* how often the signatures observed since the last clear occurred again
Repeats == SumBag([s \in Sigs |-> IF observed[s] > 1 THEN observed[s] - 1 ELSE 0],
                  Sigs)

\* C8: between two clears of an attempt the set holds exactly the
\* signatures observed, and duplicate_count has gone up by one for every
\* observation of a signature that had been observed before.
C8_DuplicateCheckExact ==
    InAttempt =>
        /\ recent_sigs = {s \in Sigs : observed[s] > 0}
        /\ competition_stats.duplicate_count - dup_base = Repeats

\* five observations without a clear: one signature three times, two others
\* once each (as in a, b, a, c, a), counted as two duplicates
C8_Witness ==
    /\ ing_pc = "send_entries"
    /\ observed = [s \in Sigs |-> CASE s = 1 -> 3 [] s \in {2, 3} -> 1 [] OTHER -> 0]
    /\ recent_sigs = {1, 2, 3}
    /\ competition_stats.duplicate_count - dup_base = 2

\* the signatures observed in the message being handled
ObservedInMsg == Len(SigsOf(Flatten(cur_msg.entries)))

\* C9: the clear check falls on every SIG_CLEANUP_INTERVAL-th signature
\* observation; a message whose observations reach such a point clears the
\* set iff it holds more than SIG_CLEANUP_THRESHOLD entries, and no other
\* message clears it.
C9_ClearEveryIntervalObservations ==
    [][(ing_pc = "send_entries" /\ ing_pc' = "stream") =>
         LET before == n_observed - ObservedInMsg
             at_check == (n_observed \div SIG_CLEANUP_INTERVAL)
                            > (before \div SIG_CLEANUP_INTERVAL)
         IN  recent_sigs' =
                 IF at_check /\ Cardinality(recent_sigs) > SIG_CLEANUP_THRESHOLD
                 THEN {} ELSE recent_sigs]_vars

\* C10: the set never holds more than the threshold plus the signatures of
\* one period of SIG_CLEANUP_INTERVAL observations.
C10_SetSizeBounded ==
    Cardinality(recent_sigs) <= SIG_CLEANUP_THRESHOLD + SIG_CLEANUP_INTERVAL

(***************************************************************************)
(* The handling of one decoded batch.                                      *)
(***************************************************************************)
\* the step that handles a decoded batch
BatchHandled == ing_pc = "handle" /\ cur_msg.ok /\ ing_pc' = "send_entries"

\* the transactions of the batch in hand, in processing order
BatchTxns == Flatten(cur_msg.entries)

\* the positions of the account list that hold a registry program
ProgramKeys(txn) ==
    {i \in DOMAIN txn.account_keys :
        txn.account_keys[i] \in DOMAIN KnownProgramsGetAll}

\* the account list holds a registry program of the category
MatchesCategory(txn, category) ==
    \E i \in ProgramKeys(txn) :
        KnownProgramsGetAll[txn.account_keys[i]].category = category

\* the account list holds a tip-collection account
TouchesTip(txn) ==
    \E i \in DOMAIN txn.account_keys : txn.account_keys[i] \in JITO_TIP_ACCOUNTS

\* the batch of the scenario: a first transaction matching one DEX program
\* and nothing else, a second one referencing a tip account and no
\* program, a third one that repeats the first one's signature and matches
\* nothing; neither signature has been observed before
DexTipRepeatBatch ==
    /\ Len(BatchTxns) = 3
    /\ \A i \in 1 .. 3 : BatchTxns[i].signatures # <<>>
    /\ Cardinality(ProgramKeys(BatchTxns[1])) = 1
    /\ MatchesCategory(BatchTxns[1], "Dex")
    /\ ~TouchesTip(BatchTxns[1])
    /\ ProgramKeys(BatchTxns[2]) = {}
    /\ TouchesTip(BatchTxns[2])
    /\ BatchTxns[3].signatures[1] = BatchTxns[1].signatures[1]
    /\ ProgramKeys(BatchTxns[3]) = {}
    /\ ~TouchesTip(BatchTxns[3])
    /\ BatchTxns[2].signatures[1] # BatchTxns[1].signatures[1]
    /\ BatchTxns[1].signatures[1] \notin recent_sigs
    /\ BatchTxns[2].signatures[1] \notin recent_sigs

BatchMatches(category) ==
    Cardinality({i \in DOMAIN BatchTxns :
                    /\ BatchTxns[i].signatures # <<>>
                    /\ MatchesCategory(BatchTxns[i], category)})

\* C12: each of the four category counters goes up by one for every
\* transaction of the batch that matches at least one program of the
\* category, however many programs of the category it matches.
C12_CategoryOncePerTransaction ==
    [][BatchHandled =>
         /\ program_stats'.dex_txn_count
                = program_stats.dex_txn_count + BatchMatches("Dex")
         /\ program_stats'.lending_txn_count
                = program_stats.lending_txn_count + BatchMatches("Lending")
         /\ program_stats'.mev_txn_count
                = program_stats.mev_txn_count + BatchMatches("Mev")
         /\ program_stats'.staking_txn_count
                = program_stats.staking_txn_count + BatchMatches("Staking")]_vars

\* the signatures of the batch's signed transactions that reference a tip
\* account, in processing order
TipSigs ==
    SigsOf(SelectSeq(BatchTxns, LAMBDA t : t.signatures # <<>> /\ TouchesTip(t)))

\* C13: a batch with a signed transaction that references a tip account
\* appends exactly one BundleInfo (bundle_count + 1) for the batch's slot,
\* holding the signatures of those transactions in processing order; a batch
\* without one appends none and leaves bundle_count alone.
C13_OneBundlePerTipBatch ==
    [][BatchHandled =>
         IF TipSigs # <<>>
         THEN /\ competition_stats'.bundle_count
                    = competition_stats.bundle_count + 1
              /\ Len(competition_stats'.bundles) > 0
              /\ LET bundles == competition_stats.bundles
                     bundle == competition_stats'.bundles[
                                   Len(competition_stats'.bundles)]
                 IN  /\ competition_stats'.bundles =
                            Append(IF Len(bundles) >= MAX_BUNDLE_SAMPLES
                                   THEN Tail(bundles) ELSE bundles, bundle)
                     /\ bundle.slot = cur_msg.slot
                     /\ bundle.signatures = TipSigs
         ELSE /\ competition_stats'.bundle_count = competition_stats.bundle_count
              /\ competition_stats'.bundles = competition_stats.bundles]_vars

\* a batch with two tip-referencing transactions has been handled
C13_Witness ==
    /\ ing_pc = "send_entries"
    /\ TipSigs = <<1, 2>>
    /\ competition_stats.bundle_count = 1
    /\ competition_stats.bundles[1].signatures = <<1, 2>>

\* the SlotInfo at the end of the slot history after the step
LastSlotInfo == slot_history'[Len(slot_history')]

\* the number of signed transactions of the batch that reference a tip account
BatchTipTxns ==
    Cardinality({i \in DOMAIN BatchTxns :
                    /\ BatchTxns[i].signatures # <<>>
                    /\ TouchesTip(BatchTxns[i])})

\* C14: the SlotInfo recorded for a batch carries the batch's sub-counts:
\* dex_txn_count is the number of DEX-flagged transactions of the batch and
\* jito_bundle_count the number of its tip-referencing transactions.
C14_SlotInfoSubCounts ==
    [][BatchHandled =>
         /\ Len(slot_history') > 0
         /\ LastSlotInfo.dex_txn_count = BatchMatches("Dex")
         /\ LastSlotInfo.jito_bundle_count = BatchTipTxns]_vars

\* C15: every decoded message, an empty one included, appends exactly one
\* SlotInfo with the message's slot, entry count and transaction count, and
\* adds those counts to the window and the cumulative entry and transaction
\* counters of ShredMetrics.
C15_OneSlotInfoPerMessage ==
    [][BatchHandled =>
         /\ Len(slot_history') > 0
         /\ slot_history' =
                Append(IF Len(slot_history) >= MAX_SLOT_HISTORY
                       THEN Tail(slot_history) ELSE slot_history, LastSlotInfo)
         /\ LastSlotInfo.slot = cur_msg.slot
         /\ LastSlotInfo.entry_count = Len(cur_msg.entries)
         /\ LastSlotInfo.txn_count = Len(BatchTxns)
         /\ metrics'.entry_count = metrics.entry_count + Len(cur_msg.entries)
         /\ metrics'.total_entries = metrics.total_entries + Len(cur_msg.entries)
         /\ metrics'.txn_count = metrics.txn_count + Len(BatchTxns)
         /\ metrics'.total_txns = metrics.total_txns + Len(BatchTxns)]_vars

\* a message without entries has been handled
C15_Witness ==
    /\ ing_pc = "send_entries"
    /\ cur_msg.entries = <<>>
    /\ Len(slot_history) = 1
    /\ slot_history[1].slot = cur_msg.slot
    /\ slot_history[1].entry_count = 0 /\ slot_history[1].txn_count = 0
    /\ metrics.total_entries = 0 /\ metrics.total_txns = 0

\* the step offers an EntriesReceived notification to the channel
NotificationOffered ==
    /\ Len(chan') = Len(chan) + 1
    /\ chan'[Len(chan')].type = "EntriesReceived"

\* C16: messages are taken from the stream one at a time, each after the
\* one before it has been handled and notified; a SlotInfo is appended only
\* by the handling of the message in hand; and a notification is offered
\* only after that append, for the same slot and counts as the SlotInfo
\* appended last.  So the notifications follow the appends in order.
C16_AppendBeforeNotification ==
    [][/\ (cur_msg' # cur_msg /\ cur_msg' # NoMsg)
              => (ing_pc = "stream" /\ cur_msg = NoMsg /\ ing_pc' = "handle")
       /\ slot_history' # slot_history => BatchHandled
       /\ NotificationOffered =>
              /\ ing_pc = "send_entries"
              /\ slot_history' = slot_history
              /\ Len(slot_history) > 0
              /\ chan' = Append(chan, chan'[Len(chan')])
              /\ chan'[Len(chan')].slot = cur_msg.slot
              /\ chan'[Len(chan')].slot = slot_history[Len(slot_history)].slot
              /\ chan'[Len(chan')].entry_count
                     = slot_history[Len(slot_history)].entry_count
              /\ chan'[Len(chan')].txn_count
                     = slot_history[Len(slot_history)].txn_count]_vars

\* the notifications of two messages of different slots and counts wait in
\* the channel in the order of their appends
C16_Witness ==
    /\ Len(chan) = 2
    /\ chan[1].type = "EntriesReceived" /\ chan[2].type = "EntriesReceived"
    /\ chan[1].slot = 2 /\ chan[1].entry_count = 2 /\ chan[1].txn_count = 3
    /\ chan[2].slot = 1 /\ chan[2].entry_count = 1 /\ chan[2].txn_count = 1
    /\ Len(slot_history) = 2
    /\ slot_history[1].slot = 2 /\ slot_history[2].slot = 1

\* the classification state before the step, as the handling of a batch
\* takes it up
BatchStart ==
    [recent_sigs |-> recent_sigs, competition_stats |-> competition_stats,
     program_stats |-> program_stats, txn_samples |-> txn_samples,
     wallet_monitor |-> wallet_monitor, dex_count |-> 0, bundle_count |-> 0,
     bundle_txns |-> <<>>, bundle_tip_account |-> "", program_names |-> <<>>,
     is_dex |-> FALSE, is_jito_tip |-> FALSE]

\* the batch in hand without its transactions of zero signatures
SignedTxns == SelectSeq(BatchTxns, LAMBDA t : t.signatures # <<>>)

\* the outcome of handling the signed transactions of the batch alone
SignedOutcome == process_txns(BatchStart, SignedTxns, cur_msg.slot)

\* C17: a transaction with zero signatures changes no classification state:
\* the duplicate set, the program and category counters, the samples, the
\* bundles and the wallet record come out as if the batch held its signed
\* transactions only (unchanged when it holds none); yet the transaction
\* is counted in the batch's transaction count.
C17_UnsignedTransactionSkipped ==
    [][BatchHandled =>
         /\ recent_sigs' = SignedOutcome.recent_sigs
         /\ program_stats' = SignedOutcome.program_stats
         /\ txn_samples' = SignedOutcome.txn_samples
         /\ wallet_monitor' = SignedOutcome.wallet_monitor
         /\ competition_stats' = record_bundle(SignedOutcome, cur_msg.slot)
         /\ SignedTxns = <<>> =>
                /\ recent_sigs' = recent_sigs
                /\ program_stats' = program_stats
                /\ txn_samples' = txn_samples
                /\ wallet_monitor' = wallet_monitor
                /\ competition_stats' = competition_stats
         /\ LastSlotInfo.txn_count = Len(BatchTxns)]_vars

\* a batch of one transaction, unsigned and holding a tip account and a DEX
\* program, has been handled: it is counted and nothing else is recorded
C17_Witness ==
    /\ ing_pc = "send_entries"
    /\ Len(BatchTxns) = 1
    /\ BatchTxns[1].signatures = <<>>
    /\ TouchesTip(BatchTxns[1]) /\ MatchesCategory(BatchTxns[1], "Dex")
    /\ slot_history[Len(slot_history)].txn_count = 1
    /\ program_stats.dex_txn_count = 0
    /\ competition_stats.bundle_count = 0
    /\ txn_samples = <<>>
    /\ recent_sigs = {}

\* the signatures held by a sample ring, oldest first
SampleSigs(samples) == [i \in DOMAIN samples |-> samples[i].signature]

\* the signatures the sample ring holds after the signed transactions txns
\* have been processed in order, when a transaction is sampled exactly if
\* it is DEX-flagged, or tip-flagged, or the ring holds fewer than
\* SAMPLE_BASELINE entries when its turn comes
RECURSIVE SampledSigs(_, _)
SampledSigs(ring, txns) ==
    IF txns = <<>> THEN ring
    ELSE SampledSigs(
             IF \/ MatchesCategory(Head(txns), "Dex")
                \/ TouchesTip(Head(txns))
                \/ Len(ring) < SAMPLE_BASELINE
             THEN Append(IF Len(ring) >= MAX_TXN_SAMPLES THEN Tail(ring) ELSE ring,
                         Head(txns).signatures[1])
             ELSE ring,
             Tail(txns))

\* C18: a signed transaction is appended to the TxnSample ring exactly if it
\* is DEX-flagged, or tip-flagged, or the ring holds fewer than
\* SAMPLE_BASELINE entries at the moment the transaction is processed.
C18_SampledIffFlaggedOrBelowBaseline ==
    [][BatchHandled =>
         SampleSigs(txn_samples')
             = SampledSigs(SampleSigs(txn_samples), SignedTxns)]_vars

\* of three transactions the first was sampled below the baseline, the
\* second, unflagged, was passed over, and the third was sampled for its
\* tip account
C18_Witness ==
    /\ ing_pc = "send_entries"
    /\ Len(BatchTxns) = 3
    /\ \A i \in 1 .. 3 : BatchTxns[i].signatures # <<>>
    /\ \A i \in 1 .. 2 : ~TouchesTip(BatchTxns[i])
                         /\ ~MatchesCategory(BatchTxns[i], "Dex")
    /\ BatchTxns[1].signatures[1] # BatchTxns[2].signatures[1]
    /\ TouchesTip(BatchTxns[3])
    /\ Len(txn_samples) = 2
    /\ txn_samples[1].signature = BatchTxns[1].signatures[1]
    /\ ~txn_samples[1].is_bundle
    /\ txn_samples[2].is_bundle

(***************************************************************************)
(* The metrics window and the cumulative counters                          *)
(***************************************************************************)
\* the window-scoped counters of ShredMetrics
WindowCounters(m) ==
    <<m.received, m.success_forward, m.fail_forward, m.duplicate,
      m.recovered_count, m.entry_count, m.txn_count>>

\* the cumulative counters of ShredMetrics
CumulativeCounters(m) ==
    <<m.total_received, m.total_success_forward, m.total_fail_forward,
      m.total_duplicate, m.total_entries, m.total_txns>>

\* the step restarts the metrics window
WindowReset == metrics_window_start' # metrics_window_start

\* C19: the restart of the metrics window sets every window-scoped counter
\* of ShredMetrics to 0 and restarts the window clock; it leaves the
\* cumulative counters of ShredMetrics and every other tracker as they were.
C19_ResetZeroesWindowOnly ==
    [][WindowReset =>
         /\ metrics_window_start' = metrics_window_start + 1
         /\ \A i \in DOMAIN WindowCounters(metrics') :
                WindowCounters(metrics')[i] = 0
         /\ CumulativeCounters(metrics') = CumulativeCounters(metrics)
         /\ UNCHANGED <<program_stats, competition_stats, latency_stats,
                        turbine_stats, leader_tracker, wallet_monitor,
                        slot_history, txn_samples, current_slot,
                        reconnect_count>>]_vars

\* the window has been restarted after entries and transactions were
\* counted, and nothing has been counted since
C19_Witness ==
    /\ metrics_window_start = 1
    /\ metrics.entry_count = 0 /\ metrics.txn_count = 0
    /\ metrics.total_entries = 3 /\ metrics.total_txns = 3
    /\ Len(slot_history) = 2
    /\ program_stats.dex_txn_count = 1

\* a counter of the tuple after the step is below its value before
Decreases(before, after) ==
    \E i \in DOMAIN before : after[i] < before[i]

\* the cumulative counters outside ShredMetrics
TrackerCounters ==
    <<reconnect_count, competition_stats.duplicate_count,
      competition_stats.bundle_count, program_stats.dex_txn_count,
      program_stats.lending_txn_count, program_stats.mev_txn_count,
      program_stats.staking_txn_count, wallet_monitor.txn_count>>

\* C20: no cumulative counter ever decreases, whatever the interleaving of
\* the client task and the presentation loop; a window-scoped counter of
\* ShredMetrics decreases only in the step that restarts the window.
C20_CumulativeCountersMonotonic ==
    [][/\ ~Decreases(CumulativeCounters(metrics), CumulativeCounters(metrics'))
       /\ ~Decreases(TrackerCounters, TrackerCounters')
       /\ \A id \in DOMAIN program_stats.activities :
              /\ id \in DOMAIN program_stats'.activities
              /\ program_stats'.activities[id].txn_count
                     >= program_stats.activities[id].txn_count
       /\ Decreases(WindowCounters(metrics), WindowCounters(metrics'))
              => WindowReset]_vars

\* the counters have risen over a reconnect and a restart of the window:
\* the window counters are behind the cumulative ones
C20_Witness ==
    /\ reconnect_count >= 1
    /\ metrics_window_start = 1
    /\ metrics.total_txns = 3 /\ metrics.txn_count = 1
    /\ competition_stats.duplicate_count >= 1
    /\ competition_stats.bundle_count = 1
    /\ program_stats.lending_txn_count = 1

(***************************************************************************)
(* The trackers' update operations                                         *)
(***************************************************************************)
\* the largest of a non-empty finite set of numbers
MaxOf(S) == CHOOSE x \in S : \A y \in S : y <= x

\* the smallest of a non-empty finite set of numbers
MinOf(S) == CHOOSE x \in S : \A y \in S : x <= y

\* the slot numbers handed to add_slot so far
SlotsRecorded ==
    {appended.slot_history[i].slot : i \in DOMAIN appended.slot_history}

\* C21: current_slot is the maximum of 0 and all slot numbers recorded so
\* far, in whatever order the slots arrived; so it never decreases.
C21_CurrentSlotIsMaximum ==
    /\ [](current_slot = MaxOf({0} \cup SlotsRecorded))
    /\ [][current_slot' >= current_slot]_vars

\* a slot has been recorded after a later one
C21_Witness ==
    /\ Len(appended.slot_history) = 2
    /\ appended.slot_history[1].slot = 3
    /\ appended.slot_history[2].slot = 1
    /\ current_slot = 3

\* no tracker has been updated
TrackersUntouched ==
    /\ slot_history = <<>>
    /\ turbine_stats = TurbineStatsNew
    /\ leader_tracker = LeaderTrackerNew
    /\ program_stats = ProgramStatsNew

\* C23: set_connection_state(p) with p the current phase changes nothing
\* (no log entry, connected_at as it was); with another p it appends exactly
\* one INFO log entry, sets the phase to p, and stamps connected_at exactly
\* if p is Connected.
C23_SetConnectionState ==
    [][\A p \in StatPhases :
         StatSetConnectionState(p) =>
            IF p = connection_state
            THEN UNCHANGED <<logs, connection_state, connected_at>>
            ELSE /\ connection_state' = p
                 /\ Len(logs') > 0
                 /\ logs' = Append(IF Len(logs) >= MAX_LOG_ENTRIES
                                   THEN Tail(logs) ELSE logs,
                                   logs'[Len(logs')])
                 /\ logs'[Len(logs')].level = "INFO"
                 /\ (p = "Connected") <=> (connected_at' # connected_at)]_vars

\* two calls have been made and only one of them has logged and stamped:
\* the other one named the phase already current
C23_Witness ==
    /\ ring_ops = 2
    /\ TrackersUntouched
    /\ connection_state = "Connected"
    /\ connected_at = 1
    /\ Len(logs) = Len(InitLogs) + 1

\* the four layer buckets of TurbineStats
LayerBuckets(ts) ==
    <<ts.layer_0_count, ts.layer_1_count, ts.layer_2_count,
      ts.layer_3_plus_count>>

\* the position in LayerBuckets of the bucket of a layer
BucketOf(layer) == IF layer >= 3 THEN 4 ELSE layer + 1

\* the step is a TurbineStats::add_sample call; its argument is the last
\* element of appended'.turbine_samples
TurbineSampleAdded ==
    Len(appended'.turbine_samples) = Len(appended.turbine_samples) + 1

\* C25: each TurbineStats::add_sample increments exactly one of the four
\* layer buckets, the one of its layer (the fourth for every layer >= 3),
\* and the four buckets add up to total_samples.
C25_OneLayerBucketPerSample ==
    /\ [](LayerBuckets(turbine_stats)[1] + LayerBuckets(turbine_stats)[2]
              + LayerBuckets(turbine_stats)[3] + LayerBuckets(turbine_stats)[4]
            = turbine_stats.total_samples)
    /\ [](turbine_stats.total_samples = Len(appended.turbine_samples))
    /\ [][TurbineSampleAdded =>
            LET layer == appended'.turbine_samples[
                             Len(appended'.turbine_samples)].layer
            IN  \A b \in 1 .. 4 :
                   LayerBuckets(turbine_stats')[b] =
                       LayerBuckets(turbine_stats)[b]
                           + (IF b = BucketOf(layer) THEN 1 ELSE 0)]_vars

\* samples of the layers 0, 1, 2, 3 and 4 have been added
C25_Witness ==
    /\ Len(appended.turbine_samples) = 5
    /\ \A l \in 0 .. 4 : \E i \in 1 .. 5 : appended.turbine_samples[i].layer = l
    /\ LayerBuckets(turbine_stats) = <<1, 1, 1, 2>>

\* the record_slot calls made so far for a leader
LeaderCalls(leader) ==
    {i \in DOMAIN appended.leader_history :
        appended.leader_history[i].leader = leader}

RECURSIVE SumTxns(_)
\* the transactions of a set of record_slot calls
SumTxns(made) ==
    IF made = {} THEN 0
    ELSE LET i == CHOOSE j \in made : TRUE
         IN  appended.leader_history[i].txn_count + SumTxns(made \ {i})

RECURSIVE SumSlotsSeen(_)
\* slots_seen summed over a set of leaders
SumSlotsSeen(leaders) ==
    IF leaders = {} THEN 0
    ELSE LET l == CHOOSE k \in leaders : TRUE
         IN  leader_tracker.leader_stats[l].slots_seen
                 + SumSlotsSeen(leaders \ {l})

\* C26: record_slot adds to the leader's totals (slots_seen + 1,
\* slots_skipped + 1 exactly on a skip, total_txns + txn_count): the totals
\* are those of all calls made for the leader, whatever the bounded history
\* has evicted, and never decrease; slots_skipped <= slots_seen for every
\* leader, and slots_seen summed over the leaders is the number of calls.
C26_LeaderTotals ==
    /\ [](\A l \in StatLeaders :
             IF LeaderCalls(l) = {}
             THEN l \notin DOMAIN leader_tracker.leader_stats
             ELSE /\ l \in DOMAIN leader_tracker.leader_stats
                  /\ leader_tracker.leader_stats[l].slots_seen
                         = Cardinality(LeaderCalls(l))
                  /\ leader_tracker.leader_stats[l].slots_skipped
                         = Cardinality({i \in LeaderCalls(l) :
                                           appended.leader_history[i].skip})
                  /\ leader_tracker.leader_stats[l].total_txns
                         = SumTxns(LeaderCalls(l))
                  /\ leader_tracker.leader_stats[l].slots_skipped
                         <= leader_tracker.leader_stats[l].slots_seen)
    /\ [](SumSlotsSeen(DOMAIN leader_tracker.leader_stats)
             = Len(appended.leader_history))
    /\ [][\A l \in DOMAIN leader_tracker.leader_stats :
             /\ l \in DOMAIN leader_tracker'.leader_stats
             /\ leader_tracker'.leader_stats[l].slots_seen
                    >= leader_tracker.leader_stats[l].slots_seen
             /\ leader_tracker'.leader_stats[l].slots_skipped
                    >= leader_tracker.leader_stats[l].slots_skipped
             /\ leader_tracker'.leader_stats[l].total_txns
                    >= leader_tracker.leader_stats[l].total_txns]_vars

\* the history has evicted a leader's entries and the leader's totals
\* still count them
C26_Witness ==
    /\ Len(appended.leader_history) > MAX_LEADER_HISTORY
    /\ \A i \in DOMAIN leader_tracker.slot_history :
           leader_tracker.slot_history[i].leader = "leader_b"
    /\ "leader_a" \in DOMAIN leader_tracker.leader_stats
    /\ leader_tracker.leader_stats["leader_a"].slots_seen = 2
    /\ leader_tracker.leader_stats["leader_a"].slots_skipped = 1
    /\ leader_tracker.leader_stats["leader_a"].total_txns = MaxLeaderTxns

\* the four category counters of ProgramStats
CategoryCounters(ps) ==
    <<ps.dex_txn_count, ps.lending_txn_count, ps.mev_txn_count,
      ps.staking_txn_count>>

\* the transactions recorded for a program id so far
RecordedTxns(ps, id) ==
    IF id \in DOMAIN ps.activities THEN ps.activities[id].txn_count ELSE 0

\* C29: the mapping from program id to category is total.  record_program
\* on an id outside the registry creates or updates the id's
\* ProgramActivity with category Other (txn_count + 1) and raises none of
\* the four category counters; on a registry id the activity carries the
\* registry's name and category.  No other activity is touched.
C29_RecordProgramTotal ==
    [][\A id \in StatProgramIds :
         StatRecordProgram(id) =>
            /\ DOMAIN program_stats'.activities
                   = DOMAIN program_stats.activities \cup {id}
            /\ program_stats'.activities[id].txn_count
                   = RecordedTxns(program_stats, id) + 1
            /\ \A other \in DOMAIN program_stats.activities \ {id} :
                   program_stats'.activities[other]
                       = program_stats.activities[other]
            /\ IF id \in DOMAIN KnownProgramsGetAll
               THEN /\ program_stats'.activities[id].name
                           = KnownProgramsGetAll[id].name
                    /\ program_stats'.activities[id].category
                           = KnownProgramsGetAll[id].category
               ELSE /\ program_stats'.activities[id].category = "Other"
                    /\ CategoryCounters(program_stats')
                           = CategoryCounters(program_stats)]_vars

\* an id outside the registry has been recorded twice and a registry id
\* once
C29_Witness ==
    /\ DOMAIN program_stats.activities = {"UNKNOWN_KEY", "MARGINFI"}
    /\ program_stats.activities["UNKNOWN_KEY"].txn_count = 2
    /\ program_stats.activities["UNKNOWN_KEY"].category = "Other"
    /\ program_stats.activities["MARGINFI"].category = "Lending"
    /\ CategoryCounters(program_stats) = <<0, 1, 0, 0>>

(***************************************************************************)
(* The monitored wallet                                                    *)
(***************************************************************************)
\* the account list of the transaction holds the monitored address
HoldsWallet(txn) ==
    \E i \in DOMAIN txn.account_keys :
        txn.account_keys[i] = wallet_monitor.wallet

\* the signatures of the WalletTxns of a ring, oldest first
WalletSigs(ring) == [i \in DOMAIN ring |-> ring[i].signature]

\* the step changes nothing of the WalletMonitor but, possibly, the
\* configured address
WalletRecordsKept ==
    wallet_monitor' = [wallet_monitor EXCEPT !.wallet = wallet_monitor'.wallet]

\* C24 as stated: without a configured address no message changes the
\* WalletMonitor; with one, every transaction of a batch whose account
\* list holds the address adds one WalletTxn, and no other does.
C24_OneWalletTxnPerHolder ==
    [][/\ ~BatchHandled => WalletRecordsKept
       /\ BatchHandled =>
             IF wallet_monitor.wallet = "None"
             THEN wallet_monitor' = wallet_monitor
             ELSE wallet_monitor'.txn_count = wallet_monitor.txn_count
                      + Cardinality({i \in DOMAIN BatchTxns :
                                        HoldsWallet(BatchTxns[i])})]_vars

\* the signed transactions of the batch that hold the monitored address
SignedHolders ==
    SelectSeq(BatchTxns, LAMBDA t : t.signatures # <<>> /\ HoldsWallet(t))

\* C24, amended: without a configured address no message changes the
\* WalletMonitor; with one, every transaction of a batch that has a
\* signature and whose account list holds the address adds exactly one
\* WalletTxn (txn_count + 1) however often the address occurs in the list,
\* and no other transaction adds any: a transaction without signatures is
\* skipped whether or not it holds the address.
C24_OneWalletTxnPerSignedHolder ==
    [][/\ ~BatchHandled => WalletRecordsKept
       /\ BatchHandled =>
             IF wallet_monitor.wallet = "None"
             THEN wallet_monitor' = wallet_monitor
             ELSE /\ wallet_monitor'.txn_count
                         = wallet_monitor.txn_count + Len(SignedHolders)
                  /\ WalletSigs(wallet_monitor'.transactions)
                         = LastN(WalletSigs(wallet_monitor.transactions)
                                     \o SigsOf(SignedHolders),
                                 MAX_TXN_SAMPLES)
                  /\ wallet_monitor'.wallet = wallet_monitor.wallet]_vars

\* with the address configured, a batch has been handled that holds a
\* transaction with the address twice in its list, one without it and one
\* without signatures: one WalletTxn has been added
C24_Witness ==
    /\ ing_pc = "send_entries"
    /\ wallet_monitor.wallet = "WALLET"
    /\ BatchTxns = <<Txn(<<2>>, <<"JUPITER_V6", "WALLET", "WALLET">>),
                     Txn(<<3>>, <<"JUPITER_V6">>), Txn(<<>>, <<"WALLET">>)>>
    /\ wallet_monitor.txn_count = 1
    /\ WalletSigs(wallet_monitor.transactions) = <<2>>

(***************************************************************************)
(* The phase and the stream subscription                                   *)
(***************************************************************************)
\* the step in which the stream subscription request of the attempt fails
SubscriptionFails == ing_pc = "subscribe" /\ result' = "Err:subscribe"

\* C27: the phase is set to Connected only after the stream has been
\* established: the phase is not Connected when the subscription request
\* of the attempt fails.
C27_ConnectedOnlyAfterSubscription ==
    [][SubscriptionFails => connection_state # "Connected"]_vars

(***************************************************************************)
(* The duplicate set across reconnections                                  *)
(***************************************************************************)
\* the step in which the stream of an attempt is established
StreamEstablished == ing_pc = "subscribe" /\ ing_pc' = "stream"

\* the number of signed transactions of the batch that repeat a signature
\* of an earlier transaction of the same batch
RepeatsInBatch ==
    Len(SignedTxns)
        - Cardinality({SignedTxns[i].signatures[1] : i \in DOMAIN SignedTxns})

\* C28: the duplicate set holds exactly the signatures observed in the
\* current attempt since it was last empty; it is empty when the stream of
\* an attempt is established, so the first batch of an attempt counts as
\* duplicates only the repeats inside the batch, whatever earlier attempts
\* have seen.
C28_DuplicateSetPerAttempt ==
    /\ [](InAttempt => recent_sigs = {s \in Sigs : observed[s] > 0})
    /\ [](~InAttempt => recent_sigs = {})
    /\ [][StreamEstablished => recent_sigs' = {}]_vars
    /\ [][(BatchHandled /\ n_decoded = 0) =>
             competition_stats'.duplicate_count
                 = competition_stats.duplicate_count + RepeatsInBatch]_vars

\* after a reconnection the first batch of the attempt has been handled:
\* its signature was seen in the earlier attempt and is not counted as a
\* duplicate
C28_Witness ==
    /\ reconnect_count = 1
    /\ ing_pc = "send_entries"
    /\ n_decoded = 1
    /\ metrics.total_entries = 2
    /\ Len(slot_history) = 2
    /\ recent_sigs = {1}
    /\ competition_stats.duplicate_count = 0

(***************************************************************************)
(* The window counters against the cumulative ones                         *)
(***************************************************************************)
\* C30: in every state the presentation thread can observe, the states
\* between the atomic updates of add_entry and during a window reset
\* included, the window counters do not exceed the cumulative ones.
C30_WindowWithinCumulative ==
    /\ metrics.entry_count <= metrics.total_entries
    /\ metrics.txn_count <= metrics.total_txns

(***************************************************************************)
(* The global latency minimum and maximum                                  *)
(***************************************************************************)
\* no add_sample call is in progress
NoSampleInProgress == \A t \in LatencyThreads : calls.add_sample[t].pc = 0

\* the latencies of the add_sample calls that have returned
LatenciesAdded ==
    {appended.latency_samples[i].shred_latency_us :
        i \in DOMAIN appended.latency_samples}

\* C22: once add_sample calls have returned, in whatever order of
\* latencies and however their steps were interleaved, the global minimum
\* is the smallest latency added and the global maximum the largest;
\* with no samples the minimum accessor reports 0; and no reader, at any
\* moment, is handed the sentinel (the largest representable value).
C22_GlobalMinMax ==
    /\ (NoSampleInProgress /\ LatenciesAdded # {}) =>
           /\ latency_stats.min_latency_us = MinOf(LatenciesAdded)
           /\ latency_stats.max_latency_us = MaxOf(LatenciesAdded)
           /\ max_latency_ms(latency_stats) = Ms(MaxOf(LatenciesAdded))
    /\ ring_ops = 0 => min_latency_ms(latency_stats) = Ms(0)
    /\ min_latency_ms(latency_stats) # Ms(U64_MAX)

\* three samples have been added, neither the smallest nor the largest
\* first, and all calls have returned
C22_Witness ==
    /\ NoSampleInProgress
    /\ Len(appended.latency_samples) = 3
    /\ appended.latency_samples[1].shred_latency_us = 1
    /\ appended.latency_samples[2].shred_latency_us = 2
    /\ appended.latency_samples[3].shred_latency_us = 0
    /\ latency_stats.min_latency_us = 0
    /\ latency_stats.max_latency_us = 2

(***************************************************************************)
(* The per-leader and per-region latency minimum and maximum               *)
(***************************************************************************)
\* the latencies of the samples added so far for a leader
LeaderLatencies(leader) ==
    {appended.latency_samples[i].shred_latency_us :
        i \in {j \in DOMAIN appended.latency_samples :
                  appended.latency_samples[j].leader = leader}}

\* the latencies of the samples added so far for a region
RegionLatencies(region) ==
    {appended.latency_samples[i].shred_latency_us :
        i \in {j \in DOMAIN appended.latency_samples :
                  appended.latency_samples[j].region = region}}

\* C31: for every leader and every region with a sample, min_latency_us is
\* the smallest latency of the samples recorded for the key and
\* max_latency_us the largest, samples of latency 0 included.
C31_KeyedMinMax ==
    /\ \A leader \in DOMAIN latency_stats.leader_latencies :
          /\ latency_stats.leader_latencies[leader].min_latency_us
                 = MinOf(LeaderLatencies(leader))
          /\ latency_stats.leader_latencies[leader].max_latency_us
                 = MaxOf(LeaderLatencies(leader))
    /\ \A region \in DOMAIN latency_stats.region_latencies :
          /\ latency_stats.region_latencies[region].min_latency_us
                 = MinOf(RegionLatencies(region))
          /\ latency_stats.region_latencies[region].max_latency_us
                 = MaxOf(RegionLatencies(region))


(***************************************************************************)
(* C32: the reconnect counter against the attempts that ended.             *)
(***************************************************************************)
\* the ingestion task is past the end of an attempt and has not yet counted it
EndUncounted ==
    ing_pc \in {"log_ended", "log_error", "send_error", "set_reconnecting",
                "inc_reconnect"}

\* C32 as stated: in every state reconnect_count is the number of attempts
\* that have ended and the number of times the phase was set to Reconnecting.
C32_CountIsEndedAttempts ==
    /\ reconnect_count = attempts.ended
    /\ reconnect_count = attempts.reconnecting

\* C32 amended: reconnect_count is the number of ended attempts except while
\* the ingestion task is between the end of an attempt and its increment,
\* where it is one less; it is the number of Reconnecting phases set except
\* right after setting one, where it is one less; it only ever grows by one.
C32_CountLagsEndedAttemptsByOne ==
    /\ [](attempts.ended = reconnect_count + (IF EndUncounted THEN 1 ELSE 0))
    /\ [](attempts.reconnecting
            = reconnect_count + (IF ing_pc = "inc_reconnect" THEN 1 ELSE 0))
    /\ [][reconnect_count' = reconnect_count
            \/ (reconnect_count' = reconnect_count + 1 /\ ing_pc = "inc_reconnect")]_vars

\* two attempts have ended, one after streaming and one before it, and both
\* are counted
C32_Witness ==
    /\ reconnect_count = 2 /\ attempts.ended = 2 /\ attempts.reconnecting = 2
    /\ ing_pc = "sleep" /\ result = "Err:connect"
    /\ n_decoded > 0


(***************************************************************************)
(* C33: a repeated signature does not cut the processing short.            *)
(***************************************************************************)
\* how often the account lists of a sequence of transactions hold the id
RECURSIVE KeyOccurrences(_, _)
KeyOccurrences(txns, id) ==
    IF txns = <<>> THEN 0
    ELSE Cardinality({k \in DOMAIN Head(txns).account_keys :
                         Head(txns).account_keys[k] = id})
             + KeyOccurrences(Tail(txns), id)

\* the signed transactions of the batch whose signature is already in the
\* duplicate set when the batch arrives
SeenBefore == SelectSeq(SignedTxns, LAMBDA t : t.signatures[1] \in recent_sigs)

\* C33: whether or not the signatures of a batch are already in the
\* duplicate set, every signed transaction is classified and counted: each
\* registry program's activity goes up once per occurrence in the account
\* lists, the samples are those of all signed transactions, the wallet record
\* gains every holder of the address, and the bundle lists every
\* tip-referencing signature; a batch of repeats only differs by counting
\* them as duplicates.
C33_DuplicateStillProcessed ==
    [][BatchHandled =>
         /\ \A id \in DOMAIN KnownProgramsGetAll :
               RecordedTxns(program_stats', id)
                   = RecordedTxns(program_stats, id) + KeyOccurrences(SignedTxns, id)
         /\ SampleSigs(txn_samples')
               = SampledSigs(SampleSigs(txn_samples), SignedTxns)
         /\ wallet_monitor.wallet # "None" =>
               WalletSigs(wallet_monitor'.transactions)
                   = LastN(WalletSigs(wallet_monitor.transactions)
                               \o SigsOf(SignedHolders),
                           MAX_TXN_SAMPLES)
         /\ TipSigs # <<>> =>
               /\ competition_stats'.bundle_count = competition_stats.bundle_count + 1
               /\ competition_stats'.bundles[Len(competition_stats'.bundles)].signatures
                      = TipSigs
         /\ competition_stats'.duplicate_count
               >= competition_stats.duplicate_count + Len(SeenBefore)]_vars

\* with the address configured, a batch has been handled whose second
\* transaction repeats the signature of the first and holds a DEX program,
\* a tip account and the address: both are counted, sampled and recorded,
\* and the repeat is in the bundle
C33_Witness ==
    /\ ing_pc = "send_entries"
    /\ cur_msg = EntriesMsg(2, << <<Txn(<<2>>, <<"JUPITER_V6", "WALLET", "WALLET">>)>>,
                                  <<Txn(<<2>>, <<"TIP_ACCOUNT_1", "JUPITER_V6", "WALLET">>)>> >>)
    /\ competition_stats.duplicate_count = 1
    /\ RecordedTxns(program_stats, "JUPITER_V6") = 2
    /\ SampleSigs(txn_samples) = <<2, 2>>
    /\ wallet_monitor.txn_count = 2
    /\ competition_stats.bundles[1].signatures = <<2>>


(***************************************************************************)
(* C34: the sample ring never shrinks.                                     *)
(***************************************************************************)
\* the signed transactions of the batch that are DEX-flagged or tip-flagged
FlaggedTxns ==
    SelectSeq(SignedTxns, LAMBDA t : MatchesCategory(t, "Dex") \/ TouchesTip(t))

\* C34: the length of the TxnSample ring never decreases, through
\* reconnects and restarts of the metrics window alike; once it holds
\* SAMPLE_BASELINE entries a batch adds the samples of its flagged
\* transactions and of no other, and no other step changes the ring.
C34_SampleRingNeverShrinks ==
    [][/\ Len(txn_samples') >= Len(txn_samples)
       /\ ~BatchHandled => txn_samples' = txn_samples
       /\ (BatchHandled /\ Len(txn_samples) >= SAMPLE_BASELINE) =>
             SampleSigs(txn_samples')
                 = LastN(SampleSigs(txn_samples) \o SigsOf(FlaggedTxns),
                         MAX_TXN_SAMPLES)]_vars

\* after a reconnect, with the ring at the baseline, a batch of two signed
\* transactions that match no DEX program and no tip account has been
\* handled: neither was sampled, the ring holds the sample taken before the
\* reconnect
C34_Witness ==
    /\ reconnect_count >= 1
    /\ ing_pc = "send_entries"
    /\ cur_msg = EntriesMsg(2, << <<Txn(<<1>>, <<"MARGINFI">>),
                                    Txn(<<2>>, <<"MARINADE", "JITO_TIP">>)>>, <<>> >>)
    /\ n_decoded = 1
    /\ Len(txn_samples) = 1
    /\ txn_samples[1].slot = 1 /\ txn_samples[1].is_bundle


RECURSIVE ActivityTxns(_, _)
ActivityTxns(ps, ids) ==
    IF ids = {} THEN 0
    ELSE LET id == CHOOSE x \in ids : TRUE
         IN  ps.activities[id].txn_count + ActivityTxns(ps, ids \ {id})

\* C36: between record_program calls the four category counters add up to
\* the txn_count summed over all ProgramActivity entries, and every
\* ProgramActivity is keyed by an id of the registry.
C36_CategoryCountersSumToActivities ==
    /\ program_stats.dex_txn_count + program_stats.lending_txn_count
           + program_stats.mev_txn_count + program_stats.staking_txn_count
         = ActivityTxns(program_stats, DOMAIN program_stats.activities)
    /\ DOMAIN program_stats.activities \subseteq DOMAIN KnownProgramsGetAll

\* programs of all four categories have been recorded, one of them twice,
\* from a batch that also held keys outside the registry
C36_Witness ==
    /\ program_stats.dex_txn_count >= 2
    /\ program_stats.lending_txn_count >= 1
    /\ program_stats.mev_txn_count >= 1
    /\ program_stats.staking_txn_count >= 1
    /\ Cardinality(DOMAIN program_stats.activities) >= 4
    /\ \E i \in DOMAIN BatchTxns : BatchTxns[i].account_keys = <<"UNKNOWN_KEY">>


(***************************************************************************)
(* C38: connected_at is stamped on entering Connected and never cleared.   *)
(***************************************************************************)
\* the step takes the phase into Connected from another phase
EntersConnected ==
    connection_state # "Connected" /\ connection_state' = "Connected"

\* C38: connected_at is unset as long as the phase has never been
\* Connected; it takes a new stamp exactly in the steps that take the phase
\* into Connected and is never cleared, so that connection_duration reports
\* the time since the latest such step in every later phase, Reconnecting
\* and Connecting included.
C38_ConnectedAtNeverCleared ==
    /\ [](connected_at = 0 => connection_state # "Connected")
    /\ [](connection_duration
            = IF connected_at = 0 THEN <<>> ELSE <<connected_at>>)
    /\ [][/\ EntersConnected => connected_at' = connected_at + 1
          /\ ~EntersConnected => connected_at' = connected_at
          /\ connection_duration # <<>> => connection_duration' # <<>>]_vars

\* the stream of the second connection has broken: the phase is
\* Reconnecting and the duration is still measured from the second stamp
C38_Witness ==
    /\ connection_state = "Reconnecting"
    /\ reconnect_count = 1
    /\ ing_pc = "inc_reconnect"
    /\ connected_at = 2
    /\ connection_duration = <<2>>


(***************************************************************************)
(* C39: the commands under the help overlay, and the tick.                 *)
(***************************************************************************)
\* the commands that the help overlay swallows
OverlaidCommands == {"NextTab", "PrevTab", "ScrollUp", "ScrollDown", "ResetMetrics"}

\* what the command does while the overlay is hidden
CommandActs(event) ==
    /\ event = "NextTab" =>
          /\ selected_tab' = IF selected_tab = 7 THEN 0 ELSE selected_tab + 1
          /\ UNCHANGED <<scroll_offset, metrics, metrics_window_start>>
    /\ event = "PrevTab" =>
          /\ selected_tab' = IF selected_tab = 0 THEN 7 ELSE selected_tab - 1
          /\ UNCHANGED <<scroll_offset, metrics, metrics_window_start>>
    /\ event = "ScrollUp" =>
          /\ scroll_offset' = IF scroll_offset > 0 THEN scroll_offset - 1 ELSE 0
          /\ UNCHANGED <<selected_tab, metrics, metrics_window_start>>
    /\ event = "ScrollDown" =>
          /\ scroll_offset' = scroll_offset + 1
          /\ UNCHANGED <<selected_tab, metrics, metrics_window_start>>
    /\ event = "ResetMetrics" =>
          /\ \A i \in DOMAIN WindowCounters(metrics') : WindowCounters(metrics')[i] = 0
          /\ CumulativeCounters(metrics') = CumulativeCounters(metrics)
          /\ metrics_window_start' # metrics_window_start
          /\ UNCHANGED <<selected_tab, scroll_offset>>

LockBlocked(task) ==
    /\ LockRunning(task)
    /\ LockPending(task).kind = "acquire"
    /\ ~LockGranted(task, LockPending(task))

\* the operation acquires lock inner while it holds lock outer
AcquiresWhileHolding(op, outer, inner) ==
    \E i \in DOMAIN LockPath(op) :
        /\ LockPath(op)[i].kind = "acquire"
        /\ LockPath(op)[i].lock = inner
        /\ HeldAfter(SubSeq(LockPath(op), 1, i - 1), outer) # "none"

AllLockOps == LockOps("ingest") \cup LockOps("ui")

AllLocks == {"connection_state", "logs", "connected_at", "txn_samples",
             "wallet", "transactions", "show_help"}

\* C37: the two tasks never deadlock on the locks: a task that waits for a
\* lock waits for one the other task holds and will release without
\* waiting itself.  set_connection_state takes the log lock and the
\* connected_at lock while it holds the connection_state write lock; no
\* operation takes two locks in the opposite order of another operation, and
\* none asks for a lock it holds.
C37_NoLockDeadlock ==
    /\ \A task \in LockTasks :
          LockBlocked(task) =>
             \E other \in LockTasks \ {task} :
                 LockRunning(other) /\ ~LockBlocked(other)
    /\ \A task \in LockTasks :
          (LockRunning(task) /\ LockPending(task).kind = "acquire") =>
             LockHeld(task, LockPending(task).lock) = "none"
    /\ AcquiresWhileHolding("set_connection_state:connected",
                            "connection_state", "logs")
    /\ AcquiresWhileHolding("set_connection_state:connected",
                            "connection_state", "connected_at")
    /\ \A a \in AllLockOps, b \in AllLockOps :
          \A outer \in AllLocks, inner \in AllLocks :
             ~(AcquiresWhileHolding(a, outer, inner)
                 /\ AcquiresWhileHolding(b, inner, outer))

\* the ingestion task holds the connection_state write lock inside
\* set_connection_state and waits for the log lock, which the presentation
\* loop holds while it draws the logs tab
C37_Witness ==
    /\ calls.locking["ingest"].op = "set_connection_state:connected"
    /\ LockHeld("ingest", "connection_state") = "write"
    /\ LockBlocked("ingest")
    /\ LockPending("ingest").lock = "logs"
    /\ LockHeld("ui", "logs") = "read"

====
